---- MODULE Spec2Model ----
(***************************************************************************)
(* Model of the HSTNN core: the skip-trace search engine                   *)
(* (src/src/core/SkipTraceEngine.js), the tokens it searches               *)
(* (HyperpositionToken, src/unnamed/part_002), the sparse pattern          *)
(* encoder (SparseHyperpositionEncoder, src/unnamed/part_001), the         *)
(* stability token (BiHamiltonianToken,                                    *)
(* src/src/core/BiHamiltonianStability.js) and the wrapper of a base       *)
(* model (HyperpositionWrapper, src/unnamed/part_000).                     *)
(*                                                                         *)
(* Numbers.  The code computes in IEEE doubles; the model computes the     *)
(* same expressions exactly, over scaled integers:                         *)
(*   - a feature (dimension) value v in [0,1] is the integer 10*v;         *)
(*   - a skip score s is the integer 40000*s, a threshold t is 1000*t;     *)
(*   - an energy amount e is the integer 400*e;                            *)
(*   - a coherence is a fraction num / (100000 * den).                     *)
(***************************************************************************)
EXTENDS Integers, Sequences, FiniteSets, TLC

VARIABLES
    tokens,        \* SkipTraceEngine.tokens: sequence of tokens
    threshold,     \* SkipTraceEngine.threshold, in thousandths
    anchors,       \* the anchors of the last generateTraces() call
    rawTraces,     \* this.traces as that call had it before pruneTraces
    traces,        \* SkipTraceEngine.traces
    generated,     \* number of generateTraces() calls made so far (capped)
    lastCall,      \* the last query made on the engine and what it returned
    rand,          \* the values Math.random() yields, as a periodic stream
    rptr           \* position of the next Math.random() draw in rand

engineVars == <<tokens, threshold, anchors, rawTraces, traces, generated,
                lastCall, rand, rptr>>

VARIABLES
    dimensions,    \* SparseHyperpositionEncoder.dimensions
    activeBits,    \* SparseHyperpositionEncoder.activeBits
    seeds,         \* SparseHyperpositionEncoder.seeds
    conceptMemory, \* SparseHyperpositionEncoder.conceptMemory, in insertion order
    firstEncoded,  \* history: concept -> the pattern its first encode returned
    encCall        \* the last call made on the encoder and what it returned

encoderVars == <<dimensions, activeBits, seeds, conceptMemory, firstEncoded,
                 encCall>>

VARIABLES
    token,         \* the BiHamiltonianToken object: its fields
    made           \* the calls made on the token so far (capped)

tokenVars == <<token, made>>

VARIABLES
    skipEngine,    \* HyperpositionWrapper.skipEngine: the engine's fields
    baseModel,     \* HyperpositionWrapper.baseModel: prompt -> what generate does
    processCall    \* the last process() call made and how it settled

wrapperVars == <<skipEngine, baseModel, processCall>>

vars == <<engineVars, encoderVars, tokenVars, wrapperVars>>

----------------------------------------------------------------------------
(* Generic helpers *)

Abs(x) == IF x < 0 THEN -x ELSE x

Min(a, b) == IF a < b THEN a ELSE b

Max(a, b) == IF a > b THEN a ELSE b

Range(s) == {s[i] : i \in 1..Len(s)}

----------------------------------------------------------------------------
(* HyperpositionToken *)

\* The value 1.0 of a feature; features are integers 0..Unit (tenths).
Unit == 10

Dims == <<"semantic", "temporal", "causal", "emotional", "relational",
          "probability", "energy", "coherence">>

\* getResonanceWeight, in hundredths
ResonanceWeight(dim) ==
    CASE dim = "semantic" -> 25
      [] dim = "temporal" -> 10
      [] dim = "causal" -> 20
      [] dim = "emotional" -> 15
      [] dim = "relational" -> 10
      [] dim = "probability" -> 5
      [] dim = "energy" -> 10
      [] dim = "coherence" -> 5
      [] OTHER -> 10

\* A token: its category tag and its eight features.
Token(universal, se, te, ca, em, re, pr, en, co) ==
    [universal |-> universal,
     dimensions |-> [semantic |-> se, temporal |-> te, causal |-> ca,
                     emotional |-> em, relational |-> re, probability |-> pr,
                     energy |-> en, coherence |-> co]]

RECURSIVE SumDimResonance(_, _, _)
\* the loop of resonanceWith over the first k dimensions, in thousandths
SumDimResonance(a, b, k) ==
    IF k = 0 THEN 0
    ELSE SumDimResonance(a, b, k - 1)
         + (Unit - Abs(a.dimensions[Dims[k]] - b.dimensions[Dims[k]]))
           * ResonanceWeight(Dims[k])

\* calculateDistancePenalty: 0.8 + Math.random() * 0.2, in hundredths, for a
\* Math.random() value r given in tenths
DistancePenalty(r) == 80 + 2 * r

\* resonanceWith, in units of 1/100000, r the Math.random() draw it makes
ResonanceWith(a, b, r) == SumDimResonance(a, b, Len(Dims)) * DistancePenalty(r)

----------------------------------------------------------------------------
(* SkipTraceEngine: constructor defaults *)

\* this.maxTraceLength
maxTraceLength == 10

\* this.branchingFactor
branchingFactor == 3

\* this.energy = 1.0, in units of 1/400
TotalEnergy == 4 * Unit * Unit

\* the default of the constructor's threshold parameter (0.3), in thousandths
DefaultThreshold == 300

----------------------------------------------------------------------------
(* Array.prototype.sort with a comparator (b, a) => b.key - a.key: a stable   *)
(* sort into non-increasing key order.  Entries are [kn, kd, item] with the *)
(* key kn / kd, kd > 0.                                                     *)

KeyGE(x, y) == x.kn * y.kd >= y.kn * x.kd

RECURSIVE InsertDescending(_, _)
\* x goes behind every entry whose key is >= its own
InsertDescending(sorted, x) ==
    IF sorted = <<>> THEN <<x>>
    ELSE IF KeyGE(Head(sorted), x)
         THEN <<Head(sorted)>> \o InsertDescending(Tail(sorted), x)
         ELSE <<x>> \o sorted

RECURSIVE SortDescendingFrom(_, _, _)
SortDescendingFrom(seq, k, sorted) ==
    IF k > Len(seq) THEN sorted
    ELSE SortDescendingFrom(seq, k + 1, InsertDescending(sorted, seq[k]))

SortDescending(seq) == SortDescendingFrom(seq, 1, <<>>)

----------------------------------------------------------------------------
(* SkipTraceEngine: scoring *)

\* causalStrength, in units of 1/(10 * Unit^2)
CausalStrength(from, to) ==
    LET causalProduct == from.dimensions.causal * to.dimensions.causal
        causalFlow == IF to.dimensions.causal > from.dimensions.causal
                      THEN 12 ELSE 8
    IN  Min(10 * Unit * Unit, causalProduct * causalFlow)

\* emotionalResonance, in units of 1/(4 * Unit^2)
EmotionalResonance(from, to) ==
    LET emotionalDiff == Abs(from.dimensions.emotional - to.dimensions.emotional)
        resonance == Unit - emotionalDiff
        \* 0.5 + emotionalIntensity * 0.5, in units of 1/(4 * Unit)
        boost == 2 * Unit + from.dimensions.emotional + to.dimensions.emotional
    IN  resonance * boost

\* semanticDistance, in units of 1/Unit
SemanticDistance(from, to) ==
    Abs(from.dimensions.semantic - to.dimensions.semantic)

\* temporalFlow, in units of 1/(2 * Unit)
TemporalFlow(from, to) ==
    LET temporalDiff == to.dimensions.temporal - from.dimensions.temporal
    IN  IF temporalDiff > 0
        THEN Min(2 * Unit, temporalDiff * 4)
        ELSE Max(0, 2 * Unit + temporalDiff)

\* skipScore with weights 0.3, 0.25, 0.25, 0.2, in units of 1/(400 * Unit^2)
SkipScore(from, to) ==
    12 * CausalStrength(from, to)
    + 25 * EmotionalResonance(from, to)
    + 100 * Unit * (Unit - SemanticDistance(from, to))
    + 40 * Unit * TemporalFlow(from, to)

\* score > this.threshold (threshold th in thousandths)
AboveThreshold(score, th) == score * 1000 > th * 400 * Unit * Unit

\* calculateEnergyCost, in units of 1/(4 * Unit^2)
CalculateEnergyCost(from, to) ==
    SemanticDistance(from, to)
    * (4 * Unit - (from.dimensions.energy + to.dimensions.energy))

----------------------------------------------------------------------------
(* SkipTraceEngine: search.  A token object is identified by its position   *)
(* in this.tokens; a path is a sequence of positions.                       *)

RECURSIVE CandidatesFrom(_, _, _, _, _)

\* the loop of findSkipCandidates taking toks[k] whether on the path or not
CandidatesFromAnywhere(toks, th, fromToken, currentPath, k) ==
    IF k > Len(toks) THEN <<>>
    ELSE LET score == SkipScore(toks[fromToken], toks[k])
             rest == CandidatesFrom(toks, th, fromToken, currentPath, k + 1)
         IN  IF AboveThreshold(score, th)
             THEN <<[kn |-> score, kd |-> 1,
                     item |-> [token |-> k, score |-> score]]>> \o rest
             ELSE rest

\* the loop of findSkipCandidates over toks[k..]
CandidatesFrom(toks, th, fromToken, currentPath, k) ==
    IF k > Len(toks) THEN <<>>
    ELSE LET score == SkipScore(toks[fromToken], toks[k])
             rest == CandidatesFrom(toks, th, fromToken, currentPath, k + 1)
         IN  IF k \in Range(currentPath) THEN rest
             ELSE IF AboveThreshold(score, th)
                  THEN <<[kn |-> score, kd |-> 1,
                          item |-> [token |-> k, score |-> score]]>> \o rest
                  ELSE rest

RECURSIVE Items(_)
Items(entries) ==
    IF entries = <<>> THEN <<>>
    ELSE <<Head(entries).item>> \o Items(Tail(entries))

\* findSkipCandidates testing membership in the path without its first token
FindSkipCandidatesTailOnly(toks, th, fromToken, currentPath) ==
    Items(SortDescending(CandidatesFrom(toks, th, fromToken, Tail(currentPath), 1)))

\* findSkipCandidates
FindSkipCandidates(toks, th, fromToken, currentPath) ==
    Items(SortDescending(CandidatesFrom(toks, th, fromToken, currentPath, 1)))

RECURSIVE TraceFromToken(_, _, _, _, _)
RECURSIVE Branch(_, _, _, _, _, _, _, _)

\* the for loop of traceFromToken over skipCandidates[i..branches]
Branch(toks, th, currentToken, newPath, remainingEnergy, skipCandidates, i, branches) ==
    IF i > branches THEN <<>>
    ELSE LET candidate == skipCandidates[i]
             energyCost == CalculateEnergyCost(toks[currentToken],
                                               toks[candidate.token])
         IN  TraceFromToken(toks, th, candidate.token, newPath,
                            remainingEnergy - energyCost)
             \o Branch(toks, th, currentToken, newPath, remainingEnergy,
                       skipCandidates, i + 1, branches)

\* traceFromToken following every candidate, not the first branchingFactor
TraceFromTokenEveryCandidate(toks, th, currentToken, path, remainingEnergy) ==
    IF Len(path) >= maxTraceLength \/ 10 * remainingEnergy < TotalEnergy
    THEN <<[path |-> Append(path, currentToken),
            energy |-> TotalEnergy - remainingEnergy,
            complete |-> TRUE]>>
    ELSE LET newPath == Append(path, currentToken)
             skipCandidates == FindSkipCandidates(toks, th, currentToken, newPath)
         IN  IF Len(skipCandidates) = 0
             THEN <<[path |-> newPath,
                     energy |-> TotalEnergy - remainingEnergy,
                     complete |-> FALSE]>>
             ELSE Branch(toks, th, currentToken, newPath, remainingEnergy,
                         skipCandidates, 1, Len(skipCandidates))

\* traceFromToken
TraceFromToken(toks, th, currentToken, path, remainingEnergy) ==
    IF Len(path) >= maxTraceLength \/ 10 * remainingEnergy < TotalEnergy
    THEN <<[path |-> Append(path, currentToken),
            energy |-> TotalEnergy - remainingEnergy,
            complete |-> TRUE]>>
    ELSE LET newPath == Append(path, currentToken)
             skipCandidates == FindSkipCandidates(toks, th, currentToken, newPath)
         IN  IF Len(skipCandidates) = 0
             THEN <<[path |-> newPath,
                     energy |-> TotalEnergy - remainingEnergy,
                     complete |-> FALSE]>>
             ELSE Branch(toks, th, currentToken, newPath, remainingEnergy,
                         skipCandidates, 1,
                         Min(branchingFactor, Len(skipCandidates)))

RECURSIVE EnergyEntries(_, _)
EnergyEntries(toks, k) ==
    IF k > Len(toks) THEN <<>>
    ELSE <<[kn |-> toks[k].dimensions.energy, kd |-> 1, item |-> k]>>
         \o EnergyEntries(toks, k + 1)

\* findAnchors taking the first tokens of the collection, unsorted
FindAnchorsUnsorted(toks) ==
    LET anchorCount == Max(1, (3 * Len(toks) + 9) \div 10)
    IN  SubSeq(Items(EnergyEntries(toks, 1)), 1, Min(anchorCount, Len(toks)))

\* findAnchors
FindAnchors(toks) ==
    LET sorted == Items(SortDescending(EnergyEntries(toks, 1)))
        \* Math.max(1, Math.ceil(this.tokens.length * 0.3))
        anchorCount == Max(1, (3 * Len(toks) + 9) \div 10)
    IN  SubSeq(sorted, 1, Min(anchorCount, Len(sorted)))

RECURSIVE TracesFromAnchors(_, _, _, _)
\* the loop of generateTraces over anchorList[k..]
TracesFromAnchors(toks, th, anchorList, k) ==
    IF k > Len(anchorList) THEN <<>>
    ELSE TraceFromToken(toks, th, anchorList[k], <<>>, TotalEnergy)
         \o TracesFromAnchors(toks, th, anchorList, k + 1)

----------------------------------------------------------------------------
(* SkipTraceEngine: pruning, coherence, ranking *)

RECURSIVE JoinTags(_, _, _)
\* trace.path.map(t => t.universal).join('-'), from position k on
JoinTags(toks, path, k) ==
    IF k > Len(path) THEN ""
    ELSE IF k = Len(path) THEN toks[path[k]].universal
    ELSE toks[path[k]].universal \o "-" \o JoinTags(toks, path, k + 1)

\* the pattern signature of pruneTraces
Signature(toks, trace) == JoinTags(toks, trace.path, 1)

\* an iteration of the loop of pruneTraces that never looks at seenPatterns
PruneStepKeepAll(toks, trace, st) ==
    IF Len(trace.path) < 3 THEN st
    ELSE [seenPatterns |-> st.seenPatterns \cup {Signature(toks, trace)},
          pruned |-> Append(st.pruned, trace)]

\* one iteration of the loop of pruneTraces, st = [seenPatterns, pruned]
PruneStep(toks, trace, st) ==
    LET pattern == Signature(toks, trace)
    IN  IF pattern \in st.seenPatterns THEN st
        ELSE IF Len(trace.path) < 3 THEN st
        ELSE [seenPatterns |-> st.seenPatterns \cup {pattern},
              pruned |-> Append(st.pruned, trace)]

RECURSIVE PruneRange(_, _, _, _, _)
\* the iterations lo..hi of the loop of pruneTraces, in order (the range is
\* halved to keep the evaluation shallow)
PruneRange(toks, trs, lo, hi, st) ==
    IF lo > hi THEN st
    ELSE IF lo = hi THEN PruneStep(toks, trs[lo], st)
    ELSE LET mid == (lo + hi) \div 2
             left == PruneRange(toks, trs, lo, mid, st)
         IN  \* the test is always true: it has the first half evaluated first
             IF Len(left.pruned) >= 0
             THEN PruneRange(toks, trs, mid + 1, hi, left)
             ELSE left

\* pruneTraces
PruneTraces(toks, trs) ==
    PruneRange(toks, trs, 1, Len(trs),
               [seenPatterns |-> {}, pruned |-> <<>>]).pruned

\* the k-th value of the random stream (k counted from 0, periodic)
RandomAt(rnd, k) == rnd[(k % Len(rnd)) + 1]

RECURSIVE PairwiseResonance(_, _, _, _, _, _)
\* the nested loops of calculateTraceCoherence from the pair (i, j) on, ptr
\* the number of Math.random() draws made so far: totalResonance in 1/100000
PairwiseResonance(toks, path, i, j, rnd, ptr) ==
    IF i > Len(path) - 1 THEN 0
    ELSE IF j > Len(path)
         THEN PairwiseResonance(toks, path, i + 1, i + 2, rnd, ptr)
         ELSE ResonanceWith(toks[path[i]], toks[path[j]], RandomAt(rnd, ptr))
              + PairwiseResonance(toks, path, i, j + 1, rnd, ptr + 1)

\* n(n-1)/2: the resonanceWith calls calculateTraceCoherence makes
Connections(n) == (n * (n - 1)) \div 2

\* calculateTraceCoherence: the fraction num / (100000 * den)
CalculateTraceCoherence(toks, trace, rnd, ptr) ==
    LET n == Len(trace.path)
        connections == Connections(n)
        totalResonance == PairwiseResonance(toks, trace.path, 1, 2, rnd, ptr)
        \* (1 - trace.energy / this.energy) * 0.2, in 1/100000
        energyBonus == (TotalEnergy - trace.energy) * 50
        num == totalResonance + energyBonus * connections
    IN  IF n < 2 THEN [num |-> 0, den |-> 1]
        ELSE [num |-> Min(100000 * connections, num), den |-> connections]

RECURSIVE ScoreFrom(_, _, _, _, _)
\* the forEach of generateTraces that sets trace.coherence, from trs[k] on
ScoreFrom(toks, trs, k, rnd, ptr) ==
    IF k > Len(trs) THEN <<>>
    ELSE <<[path |-> trs[k].path, energy |-> trs[k].energy,
            complete |-> trs[k].complete,
            coherence |-> CalculateTraceCoherence(toks, trs[k], rnd, ptr)]>>
         \o ScoreFrom(toks, trs, k + 1, rnd,
                      ptr + (IF Len(trs[k].path) < 2 THEN 0
                             ELSE Connections(Len(trs[k].path))))

RECURSIVE CoherenceEntries(_)
CoherenceEntries(trs) ==
    IF trs = <<>> THEN <<>>
    ELSE <<[kn |-> Head(trs).coherence.num, kd |-> Head(trs).coherence.den,
            item |-> Head(trs)]>> \o CoherenceEntries(Tail(trs))

\* generateTraces leaving the traces in discovery order
SortByCoherenceSkipped(trs) == trs

\* this.traces.sort((a, b) => b.coherence - a.coherence)
SortByCoherence(trs) == Items(SortDescending(CoherenceEntries(trs)))

RECURSIVE DrawsOf(_)
\* the number of Math.random() draws scoring trs makes
DrawsOf(trs) ==
    IF trs = <<>> THEN 0
    ELSE (IF Len(Head(trs).path) < 2 THEN 0 ELSE Connections(Len(Head(trs).path)))
         + DrawsOf(Tail(trs))

\* trace.coherence >= minCoherence (minCoherence m in thousandths)
CoherenceAtLeast(trace, m) ==
    trace.coherence.num >= m * 100 * trace.coherence.den

\* getBestTrace returning this.traces[0] unchecked: undefined on an empty list
BestOfUnchecked(trs) == IF Len(trs) > 0 THEN <<trs[1]>> ELSE <<"undefined">>

\* the result of getBestTrace: <<>> for null, <<trace>> for a trace
BestOf(trs) == IF Len(trs) > 0 THEN <<trs[1]>> ELSE <<>>

RECURSIVE FilterCoherent(_, _)
\* this.traces.filter(trace => trace.coherence >= minCoherence)
FilterCoherent(trs, m) ==
    IF trs = <<>> THEN <<>>
    ELSE (IF CoherenceAtLeast(Head(trs), m) THEN <<Head(trs)>> ELSE <<>>)
         \o FilterCoherent(Tail(trs), m)

----------------------------------------------------------------------------
(* Inputs of the engine *)

\* longest token collection enumerated over Profiles
MaxTokens == 4

\* longest chain collection
MaxChain == 11

\* length of the line collection: one token more than a trace may hold
LineLength == maxTraceLength + 1

\* length of the period of the Math.random() stream
RandPeriod == 2

\* number of generateTraces() calls followed on one engine
MaxGenerate == 2

\* a threshold only near-identical tokens clear (0.925), in thousandths
HighThreshold == 925

\* the values Math.random() takes, in tenths
RandomSet == {0, 9}

\* minCoherence arguments of getCoherentTraces, in thousandths (0.5 the default)
MinCoherenceSet == {500, 800, 1000}

Profiles ==
    { Token("ENTITY", 10, 10, 10, 10, 10, 10, 10, 10),
      Token("ACTION", 10, 5, 5, 5, 5, 5, 5, 5),
      Token("STATE", 5, 0, 0, 0, 0, 0, 2, 0) }

\* the i-th token of a chain: like its neighbours, a little earlier in time
ChainToken(i) == Token("ENTITY", 10, Max(0, Unit - i), 10, 10, 10, 10, 10, 10)

Chain(n) == [i \in 1..n |-> ChainToken(i - 1)]

\* the i-th token of a line: featureless but for its place on the semantic axis
LineToken(i) == Token("STATE", Min(i, Unit), 0, 0, 0, 0, 0, 0, 0)

Line(n) == [i \in 1..n |-> LineToken(i - 1)]

\* the random streams: RandPeriod values, alternating between two different
\* draws
RandomStreams ==
    { [i \in 1..RandPeriod |-> IF i % 2 = 1 THEN draw[1] ELSE draw[2]] :
          draw \in {d \in RandomSet \X RandomSet : d[1] # d[2]} }

\* (tokens, threshold) arguments of the constructor, with the random stream
\* the run draws from
EngineInputs ==
    { <<toks, th, rnd>> :
          toks \in UNION {[1..n -> Profiles] : n \in 0..MaxTokens},
          th \in {DefaultThreshold},
          rnd \in RandomStreams }
    \cup { <<Chain(n), HighThreshold, rnd>> :
              n \in (MaxTokens + 1)..MaxChain, rnd \in RandomStreams }
    \cup { <<Line(LineLength), DefaultThreshold, [i \in 1..RandPeriod |-> 0]>> }

\* no query made since the engine was built or generateTraces() last ran
NoCall == [op |-> "none", minCoherence |-> 0, value |-> <<>>]

----------------------------------------------------------------------------
(* 32-bit integers.  The hash is computed in the 32-bit two's complement    *)
(* arithmetic of the bitwise operators; a word is kept as two 16-bit halves *)
(* [hi, lo] of its unsigned value hi * 65536 + lo.                          *)

Half == 65536

\* the word of a non-negative number below 2^31
ToWord(n) == [hi |-> n \div Half, lo |-> n % Half]

\* hash << 5
ShiftLeft5(w) ==
    LET l == w.lo * 32
    IN  [hi |-> (w.hi * 32 + l \div Half) % Half, lo |-> l % Half]

\* a - b, modulo 2^32
WordSub(a, b) ==
    LET l == a.lo - b.lo
        borrow == IF l < 0 THEN 1 ELSE 0
    IN  [hi |-> (a.hi - b.hi - borrow + 2 * Half) % Half, lo |-> (l + Half) % Half]

\* a + n for a char code n, modulo 2^32
WordAdd(a, n) ==
    LET l == a.lo + n
    IN  [hi |-> (a.hi + l \div Half) % Half, lo |-> l % Half]

\* the sign bit of the word: the 32-bit integer is negative
IsNegative(w) == w.hi >= Half \div 2

\* Math.abs of the 32-bit integer, as an unsigned value (|-2^31| = 2^31)
WordAbs(w) == IF IsNegative(w) THEN WordSub([hi |-> 0, lo |-> 0], w) ELSE w

\* the unsigned value of the word modulo d
WordMod(w, d) == ((w.hi % d) * (Half % d) + w.lo) % d

----------------------------------------------------------------------------
(* SparseHyperpositionEncoder.  A concept is a string, kept as the sequence *)
(* of its char codes.  A pattern (Uint8Array) is [length, active]: its      *)
(* length and the set of the indices holding 1.                             *)

\* the number of seeds generateSeeds makes
NumSeeds == 100

RECURSIVE HashFrom(_, _, _)
\* the loop of hashFunction over input[k..]
HashFrom(hash, input, k) ==
    IF k > Len(input) THEN hash
    ELSE HashFrom(WordAdd(WordSub(ShiftLeft5(hash), hash), input[k]), input, k + 1)

\* hashFunction(input, seed): a word holding a value in 0..2^31
HashFunction(sds, input, seed) ==
    WordAbs(HashFrom(ToWord(sds[(seed % Len(sds)) + 1]), input, 1))

\* the pattern encode builds for a concept not seen before
NewPattern(sds, dims, active, concept) ==
    [length |-> dims,
     active |-> {WordMod(HashFunction(sds, concept, i), dims) : i \in 0..(active - 1)}]

\* a conceptMemory.has that never finds the concept
HasNever(memory, concept) == FALSE

\* this.conceptMemory.has(concept)
Has(memory, concept) == \E k \in 1..Len(memory) : memory[k].concept = concept

\* this.conceptMemory.get(concept)
Get(memory, concept) ==
    memory[CHOOSE k \in 1..Len(memory) : memory[k].concept = concept].pattern

\* this.conceptMemory.set(concept, pattern)
Set(memory, concept, pattern) ==
    IF Has(memory, concept)
    THEN [k \in 1..Len(memory) |->
             IF memory[k].concept = concept
             THEN [concept |-> concept, pattern |-> pattern] ELSE memory[k]]
    ELSE Append(memory, [concept |-> concept, pattern |-> pattern])

\* pattern[i] read as a condition: 1 is true, 0 and undefined are false
Bit(pattern, i) == i < pattern.length /\ i \in pattern.active

\* the indices i < dims with pattern1[i] && pattern2[i] (no index outside
\* pattern1.active can pass the test)
Both(dims, pattern1, pattern2) ==
    {i \in pattern1.active : i < dims /\ Bit(pattern1, i) /\ Bit(pattern2, i)}

\* the indices with pattern1[i] || pattern2[i], the loop not stopping at dims
EitherUnbounded(dims, pattern1, pattern2) ==
    {i \in pattern1.active \cup pattern2.active :
        Bit(pattern1, i) \/ Bit(pattern2, i)}

\* the indices i < dims with pattern1[i] || pattern2[i]
Either(dims, pattern1, pattern2) ==
    {i \in pattern1.active \cup pattern2.active :
        i < dims /\ (Bit(pattern1, i) \/ Bit(pattern2, i))}

\* the overlap count of findInterference and calculateResonance
Overlap(dims, pattern1, pattern2) == Cardinality(Both(dims, pattern1, pattern2))

\* the union count of calculateResonance
Union(dims, pattern1, pattern2) == Cardinality(Either(dims, pattern1, pattern2))

\* findInterference: the strength is the quotient num / den (den may be 0)
FindInterferenceResult(dims, active, pattern1, pattern2) ==
    [pattern |-> [length |-> dims, active |-> Both(dims, pattern1, pattern2)],
     num |-> Overlap(dims, pattern1, pattern2),
     den |-> active]

\* Math.floor((phase / (2 * Math.PI)) * this.activeBits) for the phase
\* 2 * pi * turn / turns
PhaseShift(active, turn, turns) == (turn * active) \div turns

\* applyPhase whose rotation drops the indices pushed past the last bit
ApplyPhaseNoWrap(dims, active, pattern, turn, turns) ==
    IF turn = 0 THEN pattern
    ELSE [length |-> dims,
          active |-> {j \in {i + PhaseShift(active, turn, turns) :
                                 i \in {i \in pattern.active :
                                           i < dims /\ Bit(pattern, i)}} :
                         j < dims}]

\* applyPhase(pattern, phase) for the phase 2 * pi * turn / turns
ApplyPhaseResult(dims, active, pattern, turn, turns) ==
    IF turn = 0 THEN pattern
    ELSE [length |-> dims,
          active |-> {(i + PhaseShift(active, turn, turns)) % dims :
                         i \in {i \in pattern.active :
                                   i < dims /\ Bit(pattern, i)}}]

RECURSIVE WeightAt(_, _, _)
\* result[i] after the components k.. were added, in tenths
WeightAt(components, i, k) ==
    IF k > Len(components) THEN 0
    ELSE (IF i \in components[k].pattern.active THEN components[k].weight ELSE 0)
         + WeightAt(components, i, k + 1)

\* weightedSuperpose with a threshold that a sum of exactly 0.5 clears
WeightedSuperposeInclusive(dims, components) ==
    [length |-> dims,
     active |-> {i \in UNION {components[k].pattern.active : k \in 1..Len(components)} :
                    /\ i < dims
                    /\ \A k \in 1..Len(components) : i < components[k].pattern.length
                    /\ WeightAt(components, i, 1) >= 5}]

\* weightedSuperpose(patterns): binary[i] = result[i] > 0.5; a pattern with
\* no bit i makes result[i] NaN, which is not above the threshold
WeightedSuperposeResult(dims, components) ==
    [length |-> dims,
     active |-> {i \in UNION {components[k].pattern.active : k \in 1..Len(components)} :
                    /\ i < dims
                    /\ \A k \in 1..Len(components) : i < components[k].pattern.length
                    /\ WeightAt(components, i, 1) > 5}]

\* superpose(patterns): superposition[i] = superposition[i] || pattern[i]
SuperposeResult(dims, patterns) ==
    [length |-> dims,
     active |-> {i \in UNION {patterns[k].active : k \in 1..Len(patterns)} :
                    i < dims /\ \E k \in 1..Len(patterns) : Bit(patterns[k], i)}]

\* calculateResonance dividing by the overlap of the pattern with the whole
\* width instead of by the union
CalculateResonanceOverWidth(dims, pattern1, pattern2) ==
    [num |-> Overlap(dims, pattern1, pattern2), den |-> dims]

\* calculateResonance: the quotient num / den
CalculateResonanceResult(dims, pattern1, pattern2) ==
    IF Union(dims, pattern1, pattern2) > 0
    THEN [num |-> Overlap(dims, pattern1, pattern2),
          den |-> Union(dims, pattern1, pattern2)]
    ELSE [num |-> 0, den |-> 1]

\* resonance > threshold, the threshold in tenths
ClearsThreshold(r, t) == 10 * r.num > t * r.den

RECURSIVE MatchesFrom(_, _, _, _, _)
\* the loop of decode over the entries k.. of the concept memory
MatchesFrom(dims, memory, pattern, t, k) ==
    IF k > Len(memory) THEN <<>>
    ELSE LET r == CalculateResonanceResult(dims, pattern, memory[k].pattern)
         IN  (IF ClearsThreshold(r, t)
              THEN <<[kn |-> r.num, kd |-> r.den, item |-> memory[k].concept]>>
              ELSE <<>>)
             \o MatchesFrom(dims, memory, pattern, t, k + 1)

\* decode keeping the matches in the order of the concept memory
DecodeUnsorted(dims, memory, pattern, t) ==
    [k \in 1..Len(MatchesFrom(dims, memory, pattern, t, 1)) |->
        LET e == MatchesFrom(dims, memory, pattern, t, 1)[k]
        IN  [concept |-> e.item, num |-> e.kn, den |-> e.kd]]

\* decode(pattern, threshold): the matches {concept, resonance: num / den}
DecodeResult(dims, memory, pattern, t) ==
    LET sorted == SortDescending(MatchesFrom(dims, memory, pattern, t, 1))
    IN  [k \in 1..Len(sorted) |->
            [concept |-> sorted[k].item, num |-> sorted[k].kn, den |-> sorted[k].kd]]

\* resonance > 1 / parts
Above(r, parts) == parts * r.num > r.den

RECURSIVE KeptFrom(_, _, _, _)
\* the loop of generateSkipTrace over intermediates[k..]: the indices of the
\* intermediates pushed on the trace
KeptFrom(dims, current, intermediates, k) ==
    IF k > Len(intermediates) THEN <<>>
    ELSE IF Above(CalculateResonanceResult(dims, current, intermediates[k]), 10)
         THEN <<k>> \o KeptFrom(dims, intermediates[k], intermediates, k + 1)
         ELSE KeptFrom(dims, current, intermediates, k + 1)

\* generateSkipTrace comparing the trace with the intermediates and the start
\* only
GenerateSkipTraceStartOnly(dims, startPattern, endPattern, intermediates) ==
    LET kept == KeptFrom(dims, startPattern, intermediates, 1)
        current == IF kept = <<>> THEN startPattern
                   ELSE intermediates[kept[Len(kept)]]
        endPushed == Above(CalculateResonanceResult(dims, current, endPattern), 20)
        trace == <<startPattern>> \o [n \in 1..Len(kept) |-> intermediates[kept[n]]]
                 \o (IF endPushed THEN <<endPattern>> ELSE <<>>)
    IN  [trace |-> trace, kept |-> kept, endPushed |-> endPushed,
         jumps |-> Len(trace) - 1,
         isNonLinear |-> Len(trace) < Len(intermediates) + 1]

\* generateSkipTrace(startPattern, endPattern, intermediates); kept and
\* endPushed tell which pushes the handler made
GenerateSkipTraceResult(dims, startPattern, endPattern, intermediates) ==
    LET kept == KeptFrom(dims, startPattern, intermediates, 1)
        current == IF kept = <<>> THEN startPattern
                   ELSE intermediates[kept[Len(kept)]]
        endPushed == Above(CalculateResonanceResult(dims, current, endPattern), 20)
        trace == <<startPattern>> \o [n \in 1..Len(kept) |-> intermediates[kept[n]]]
                 \o (IF endPushed THEN <<endPattern>> ELSE <<>>)
    IN  [trace |-> trace, kept |-> kept, endPushed |-> endPushed,
         jumps |-> Len(trace) - 1,
         isNonLinear |-> Len(trace) < Len(intermediates) + 2]

----------------------------------------------------------------------------
(* Inputs of the encoder *)

\* widest encoder whose bit vectors are all tried as arguments
MaxEnumDim == 4

\* longest list of patterns passed to superpose
MaxSuperposed == 2

\* the phases tried are the multiples of pi / HalfTurn below 2 * pi
HalfTurn == 4

PhaseTurns == 2 * HalfTurn

\* the weights of the components of a weighted superposition, in tenths
WeightSet == {5, 9}

\* the phases of the components, in units of pi / HalfTurn: 0 and pi
ComponentPhases == {0, HalfTurn}

\* the threshold arguments of decode, in tenths: the default 0.3, and 1
DecodeThresholds == {3, 10}

\* longest list of intermediates passed to generateSkipTrace
MaxIntermediates == 2

\* longest list of components passed to weightedSuperpose
MaxComponents == 2

\* (dimensions, sparsity in percent) arguments of the constructor
EncoderConfigs == {<<10000, 2>>, <<8, 50>>, <<4, 50>>, <<4, 10>>}

\* Math.floor(dimensions * sparsity)
ActiveBitsOf(dims, sparsityPercent) == (dims * sparsityPercent) \div 100

\* generateSeeds draws NumSeeds values Math.floor(Math.random() * 2147483647);
\* the draws tried are the arithmetic progressions (first, step)
SeedDraws == {<<12345, 7919>>, <<2000000000, 999983>>}

SeedsOf(draw) ==
    [i \in 1..NumSeeds |-> (draw[1] + (i - 1) * draw[2]) % 2147483647]

\* the strings "" and "ab" as char codes
Concepts == {<<>>, <<97, 98>>}

\* the patterns held in the concept memory
Stored(memory) == {memory[k].pattern : k \in 1..Len(memory)}

\* every bit vector of length dims
AllPatterns(dims) == {[length |-> dims, active |-> a] : a \in SUBSET (0..(dims - 1))}

\* the patterns passed to calculateResonance
PatternArgs ==
    Stored(conceptMemory)
    \cup (IF dimensions <= MaxEnumDim THEN AllPatterns(dimensions)
          ELSE {[length |-> dimensions, active |-> {}]})

\* a pattern one bit longer than the encoder's width, its last bit set
Longer(dims, pattern) ==
    [length |-> dims + 1, active |-> pattern.active \cup {dims}]

\* a pattern one bit shorter than the encoder's width
Shorter(dims, pattern) ==
    [length |-> dims - 1, active |-> pattern.active \ {dims - 1}]

\* patterns of another length than the encoder's, made from the stored ones
OddPatterns ==
    {Longer(dimensions, pattern) : pattern \in Stored(conceptMemory)}
    \cup {Shorter(dimensions, pattern) : pattern \in Stored(conceptMemory)}

\* the lists of at most n different members of a set
DistinctLists(set, n) ==
    UNION {{list \in [1..k -> set] :
               \A i, j \in 1..k : i # j => list[i] # list[j]} : k \in 0..n}

\* the patterns passed to applyPhase and decode: stored ones and the all-zero
\* pattern
RecallArgs == Stored(conceptMemory) \cup {[length |-> dimensions, active |-> {}]}

NoPattern == [length |-> 0, active |-> {}]

\* no call made on the encoder yet; a call fills in the fields it uses, and
\* error names the exception it threw
NoEncCall == [op |-> "none", concept |-> <<>>, pattern1 |-> NoPattern,
              pattern2 |-> NoPattern, pattern |-> NoPattern, num |-> 0, den |-> 1,
              patterns |-> <<>>, error |-> "none", phase |-> 0,
              threshold |-> 0, matches |-> <<>>,
              skipTrace |-> [trace |-> <<>>, kept |-> <<>>, endPushed |-> FALSE,
                             jumps |-> 0, isNonLinear |-> FALSE]]

----------------------------------------------------------------------------
(* BiHamiltonianToken (src/src/core/BiHamiltonianStability.js), with what   *)
(* it inherits from EmotionalHyperpositionToken and HyperpositionToken.     *)
(*                                                                          *)
(* Numbers.  A dimension, a weight, an energy and a phase (in radians) v is *)
(* the integer Precision * v, rounded down where the code's double has      *)
(* more digits.  The derivatives are kept exactly, each in its own unit:    *)
(* position p is 2 * Precision * p (H1 + H2 for the code's (H1 + H2) / 2),  *)
(* and each division by dt = 0.1 makes the unit ten times larger, so that   *)
(* velocity v is 2 * Precision * v / 10, acceleration a is                  *)
(* 2 * Precision * a / 100, jerk j is 2 * Precision * j / 1000 and snap s   *)
(* is 2 * Precision * s / 10000.  Products that do not fit 32 bits are      *)
(* computed over two-word numbers [hi, lo] of value hi * Base + lo.         *)
(* this.dimensions is the sequence of its eight values in key order:        *)
(* semantic, temporal, causal, emotional, relational, probability, energy,  *)
(* coherence.                                                               *)

Precision == 1000000

Pi == 3141593

Base == 100000000

Limb == 10000

\* a + b over two-word numbers
WideAdd(a, b) ==
    LET lo == a.lo + b.lo
    IN  [hi |-> a.hi + b.hi + lo \div Base, lo |-> lo % Base]

\* a * b of two naturals, as a two-word number
WideMul(a, b) ==
    LET a1 == a \div Limb
        a0 == a % Limb
        b1 == b \div Limb
        b0 == b % Limb
        cross == a1 * b0 + a0 * b1
        low == (cross % Limb) * Limb + a0 * b0
    IN  [hi |-> a1 * b1 + cross \div Limb + low \div Base, lo |-> low % Base]

\* a <= b over two-word numbers
WideLE(a, b) == a.hi < b.hi \/ (a.hi = b.hi /\ a.lo <= b.lo)

\* the quotient n / m rounded down, n a two-word number: the largest q
\* between lo and hi with q * m <= n
RECURSIVE QuotientBetween(_, _, _, _)
QuotientBetween(n, m, lo, hi) ==
    IF lo >= hi THEN lo
    ELSE LET mid == (lo + hi + 1) \div 2
         IN  IF WideLE(WideMul(mid, m), n) THEN QuotientBetween(n, m, mid, hi)
                                          ELSE QuotientBetween(n, m, lo, mid - 1)

WideDiv(n, m) == QuotientBetween(n, m, 0, Base - 1)

NumDims == 8

Emotional == 4

Relational == 5

Energy == 7

DimSum(d) == d[1] + d[2] + d[3] + d[4] + d[5] + d[6] + d[7] + d[8]

\* Math.sqrt of a two-word number, rounded down: the largest r with
\* r * r <= n
RECURSIVE SqrtBetween(_, _, _)
SqrtBetween(n, lo, hi) ==
    IF lo >= hi THEN lo
    ELSE LET mid == (lo + hi + 1) \div 2
         IN  IF WideLE(WideMul(mid, mid), n) THEN SqrtBetween(n, mid, hi)
                                            ELSE SqrtBetween(n, lo, mid - 1)

Sqrt(n) == SqrtBetween(n, 0, Base - 1)

\* normalizeDimensions()
NormalizeDimensions(d) ==
    LET sum == DimSum(d)
    IN  IF sum > 0
        THEN [i \in 1..NumDims |-> WideDiv(WideMul(d[i], Precision), sum)]
        ELSE d

\* Math.cos and Math.sin at the phases the model passes in, the multiples
\* k * Math.PI / 4 (Math.sin(Math.PI) is 1.2e-16 in doubles, below the
\* model's precision; 707107 is the square root of 1/2)
Cos(phase) ==
    LET k == ((4 * phase + Pi \div 2) \div Pi) % 8
    IN  IF k = 0 THEN Precision
        ELSE IF k \in {1, 7} THEN 707107
        ELSE IF k \in {2, 6} THEN 0
        ELSE IF k \in {3, 5} THEN -707107
        ELSE -Precision

Sin(phase) ==
    LET k == ((4 * phase + Pi \div 2) \div Pi) % 8
    IN  IF k \in {0, 4} THEN 0
        ELSE IF k \in {1, 3} THEN 707107
        ELSE IF k = 2 THEN Precision
        ELSE IF k \in {5, 7} THEN -707107
        ELSE -Precision

\* weight * c, for a weight >= 0 and a cosine or sine c
Weighted(weight, c) ==
    LET product == WideDiv(WideMul(weight, Abs(c)), Precision)
    IN  IF c < 0 THEN -product ELSE product

RECURSIVE RealPart(_, _)
RealPart(components, i) ==
    IF i > Len(components) THEN 0
    ELSE Weighted(components[i].weight, Cos(components[i].phase))
           + RealPart(components, i + 1)

RECURSIVE ImaginaryPart(_, _)
ImaginaryPart(components, i) ==
    IF i > Len(components) THEN 0
    ELSE Weighted(components[i].weight, Sin(components[i].phase))
           + ImaginaryPart(components, i + 1)

\* Map.prototype.set: a known key keeps its place, a new one goes last
SetComponent(components, entry) ==
    IF \E i \in 1..Len(components) : components[i].emotion = entry.emotion
    THEN [i \in 1..Len(components) |->
            IF components[i].emotion = entry.emotion THEN entry
            ELSE components[i]]
    ELSE Append(components, entry)

\* recalculateSuperposition()
RecalculateSuperposition(t) ==
    LET components == t.emotionalState.components
        real == RealPart(components, 1)
        imaginary == ImaginaryPart(components, 1)
        magnitude == Sqrt(WideAdd(WideMul(Abs(real), Abs(real)),
                                  WideMul(Abs(imaginary), Abs(imaginary))))
        numComponents == Len(components)
    IN  [t EXCEPT
           !.dimensions[Emotional] = magnitude,
           !.emotionalState.coherence =
               IF numComponents > 1 /\ magnitude < (3 * Precision) \div 10
               THEN 0
               ELSE magnitude \div numComponents]

\* addEmotionalComponent(emotion, weight, phase)
AddEmotionalComponentTo(t, emotion, weight, phase) ==
    RecalculateSuperposition(
        [t EXCEPT !.emotionalState.components =
            SetComponent(@, [emotion |-> emotion, weight |-> weight,
                             phase |-> phase])])

\* calculateContextWeights(context), in tenths
CalculateContextWeights(context) ==
    [i \in 1..NumDims |->
        IF i = 2 /\ context.hasTemporalMarkers THEN 20
        ELSE IF i = 3 /\ context.hasCausalMarkers THEN 18
        ELSE IF i = Emotional /\ context.hasEmotionalContent THEN 15
        ELSE IF i = 6 /\ context.isQuestion THEN 13
        ELSE 10]

\* collapse(context)
CollapseOf(t, context) ==
    LET contextWeights == CalculateContextWeights(context)
        weighted == [i \in 1..NumDims |->
                        (t.dimensions[i] * contextWeights[i]) \div 10]
        normal == NormalizeDimensions(weighted)
    IN  [t EXCEPT !.dimensions =
            [normal EXCEPT ![Energy] = (@ * 9) \div 10]]

\* addConnection(token, strength)
AddConnectionTo(t, strength) ==
    [t EXCEPT
       !.connections = Append(@, strength),
       !.dimensions[Relational] = Min(Precision, @ + strength \div 10)]

RECURSIVE SumSquares(_, _)
SumSquares(d, i) ==
    IF i > NumDims THEN [hi |-> 0, lo |-> 0]
    ELSE WideAdd(WideMul(d[i], d[i]), SumSquares(d, i + 1))

\* calculateCoherenceEnergy()
CalculateCoherenceEnergy(t) ==
    Sqrt(WideAdd(SumSquares(t.dimensions, 1),
                 WideMul(t.emotionalState.coherence, Precision)))

RECURSIVE SquaredDeviations(_, _, _)
SquaredDeviations(d, mean, i) ==
    IF i > NumDims THEN [hi |-> 0, lo |-> 0]
    ELSE WideAdd(WideMul(Abs(d[i] - mean), Abs(d[i] - mean)),
                 SquaredDeviations(d, mean, i + 1))

\* the pairs counted by checkEmotionalStructure()
Opposed(components) ==
    {pair \in (1..Len(components)) \X (1..Len(components)) :
        /\ pair[1] < pair[2]
        /\ Abs(Abs(components[pair[1]].phase - components[pair[2]].phase) - Pi)
              < Precision \div 10}

\* checkEmotionalStructure()
CheckEmotionalStructure(t) ==
    Precision \div (1 + Cardinality(Opposed(t.emotionalState.components)))

\* calculateStructuralEnergy()
CalculateStructuralEnergy(t) ==
    LET mean == DimSum(t.dimensions) \div NumDims
        variance == WideDiv(SquaredDeviations(t.dimensions, mean, 1),
                            NumDims * Precision)
        structure == WideDiv(WideMul(Precision, Precision),
                             Precision + variance)
    IN  IF Len(t.emotionalState.components) > 0
        THEN (structure + CheckEmotionalStructure(t)) \div 2
        ELSE structure

\* updateDerivatives taking the snap from the previous snap, not the
\* previous jerk
UpdateDerivativesSnapOfSnap(t) ==
    LET prev == t.derivatives
        position == t.H1_coherence + t.H2_structure
        velocity == position - prev.position
        acceleration == velocity - prev.velocity
        jerk == acceleration - prev.acceleration
        snap == jerk - prev.snap
    IN  [t EXCEPT !.derivatives =
            [position |-> position, velocity |-> velocity,
             acceleration |-> acceleration, jerk |-> jerk, snap |-> snap]]

\* updateDerivatives(prevH1, prevH2), dt = 0.1
UpdateDerivatives(t) ==
    LET prev == t.derivatives
        position == t.H1_coherence + t.H2_structure
        velocity == position - prev.position
        acceleration == velocity - prev.velocity
        jerk == acceleration - prev.acceleration
        snap == jerk - prev.jerk
    IN  [t EXCEPT !.derivatives =
            [position |-> position, velocity |-> velocity,
             acceleration |-> acceleration, jerk |-> jerk, snap |-> snap]]

\* updateHamiltonians()
UpdateHamiltoniansOf(t) ==
    UpdateDerivatives(
        [t EXCEPT !.H1_coherence = CalculateCoherenceEnergy(t),
                  !.H2_structure = CalculateStructuralEnergy(t)])

\* |H1 - H2|
Divergence(t) == Abs(t.H1_coherence - t.H2_structure)

\* checkDivergence(): the warning object, or null
CheckDivergence(t) ==
    IF Divergence(t) > t.divergenceThreshold
    THEN [warning |-> "GHOST_STATE_EMERGING", divergence |-> Divergence(t),
          H1 |-> t.H1_coherence, H2 |-> t.H2_structure,
          recommendation |-> IF t.H1_coherence > t.H2_structure
                             THEN "Strengthen structure"
                             ELSE "Increase coherence"]
    ELSE [warning |-> "null"]

\* isStable()
IsStable(t) ==
    LET highJerk == Abs(t.derivatives.jerk) > (2 * Precision) \div 1000
        highSnap == Abs(t.derivatives.snap) > (2 * 2 * Precision) \div 10000
    IN  Divergence(t) < t.divergenceThreshold /\ ~highJerk /\ ~highSnap

\* strengthenStructure dividing every phase by 0.8
StrengthenStructureUndamped(t) ==
    LET mean == DimSum(t.dimensions) \div NumDims
        components == t.emotionalState.components
    IN  [t EXCEPT
           !.dimensions =
               [i \in 1..NumDims |-> (t.dimensions[i] * 7 + mean * 3) \div 10],
           !.emotionalState.components =
               [i \in 1..Len(components) |->
                   [emotion |-> components[i].emotion,
                    weight |-> components[i].weight,
                    phase |-> (components[i].phase * 10) \div 8]]]

\* strengthenStructure()
StrengthenStructure(t) ==
    LET mean == DimSum(t.dimensions) \div NumDims
        components == t.emotionalState.components
    IN  [t EXCEPT
           !.dimensions =
               [i \in 1..NumDims |-> (t.dimensions[i] * 7 + mean * 3) \div 10],
           !.emotionalState.components =
               [i \in 1..Len(components) |->
                   [emotion |-> components[i].emotion,
                    weight |-> components[i].weight,
                    phase |-> (components[i].phase * 8) \div 10]]]

\* the strongest dimension as increaseCoherence() picks it: the first one
\* above every earlier one, 0 for none (no dimension above 0)
RECURSIVE MaxDimFrom(_, _, _, _)
MaxDimFrom(d, i, maxDim, maxVal) ==
    IF i > NumDims THEN maxDim
    ELSE IF d[i] > maxVal THEN MaxDimFrom(d, i + 1, i, d[i])
    ELSE MaxDimFrom(d, i + 1, maxDim, maxVal)

\* increaseCoherence()
IncreaseCoherence(t) ==
    LET maxDim == MaxDimFrom(t.dimensions, 1, 0, 0)
    IN  IF maxDim = 0 THEN t
        ELSE [t EXCEPT !.dimensions =
                NormalizeDimensions([@ EXCEPT ![maxDim] = (@ * 12) \div 10])]

\* stabilize()
StabilizeOf(t) ==
    UpdateHamiltoniansOf(IF t.H1_coherence > t.H2_structure
                         THEN StrengthenStructure(t)
                         ELSE IncreaseCoherence(t))

\* risk > level, for risk = divergence * (1 + jerk * 0.3 + snap * 0.1) and
\* level in tenths; factor is the second factor times 2 * Precision / 100
RiskAbove(t, level) ==
    LET divergence == Divergence(t)
        jerk == Abs(t.derivatives.jerk)
        snap == Abs(t.derivatives.snap)
        factor == (2 * Precision) \div 100 + 3 * jerk + 10 * snap
    IN  ~WideLE(WideMul(divergence, factor),
                WideMul(level * 2 * (Precision \div 1000), Precision))

\* GhostStateDetector.analyze(token).status, criticalDivergence = 0.5 and
\* warningDivergence = 0.3
AnalyzeStatus(t) ==
    IF RiskAbove(t, 5) THEN "CRITICAL"
    ELSE IF RiskAbove(t, 3) THEN "WARNING"
    ELSE "STABLE"

\* new BiHamiltonianToken(surface, universal), the eight Math.random() draws
\* given in tenths
NewToken(draws) ==
    UpdateHamiltoniansOf(
        [dimensions |->
             NormalizeDimensions([i \in 1..NumDims |->
                                     (draws[i] * Precision) \div 10]),
         connections |-> <<>>,
         emotionalState |-> [components |-> <<>>, collapsed |-> FALSE,
                             coherence |-> 0],
         emotionalSpin |-> 0,
         H1_coherence |-> 0,
         H2_structure |-> 0,
         derivatives |-> [position |-> 0, velocity |-> 0, acceleration |-> 0,
                          jerk |-> 0, snap |-> 0],
         divergenceThreshold |-> (3 * Precision) \div 10])

----------------------------------------------------------------------------
(* Inputs of the token *)

MaxUpdates == 5

MaxStabilize == 11

MaxEdits == 1

\* the eight Math.random() draws of a constructor, in tenths
TokenDraws ==
    {<<5, 5, 5, 5, 5, 5, 5, 5>>,
     <<9, 1, 1, 1, 1, 1, 1, 1>>,
     <<1, 0, 0, 0, 0, 0, 0, 0>>,
     <<9, 2, 0, 0, 0, 0, 0, 0>>}

Emotions == {"joy", "grief"}

\* weights 0.5 and 0.9, phases 0 and Math.PI
TokenWeights == {(w * Precision) \div 10 : w \in WeightSet}

TokenPhases == {0, Pi}

\* strengths 0.1 and 1
Strengths == {Precision \div 10, Precision}

Contexts ==
    {[hasTemporalMarkers |-> FALSE, hasCausalMarkers |-> FALSE,
      hasEmotionalContent |-> FALSE, isQuestion |-> FALSE],
     [hasTemporalMarkers |-> TRUE, hasCausalMarkers |-> TRUE,
      hasEmotionalContent |-> FALSE, isQuestion |-> FALSE],
     [hasTemporalMarkers |-> FALSE, hasCausalMarkers |-> FALSE,
      hasEmotionalContent |-> TRUE, isQuestion |-> TRUE]}

\* entries of the emotionMap of detectEmotions(concept): 'love' and 'sad'
EmotionMap ==
    {<<[emotion |-> "love", weight |-> (9 * Precision) \div 10],
       [emotion |-> "joy", weight |-> (6 * Precision) \div 10]>>,
     <<[emotion |-> "grief", weight |-> (8 * Precision) \div 10],
       [emotion |-> "melancholy", weight |-> (6 * Precision) \div 10]>>}

\* the values Math.random() * Math.PI * 2 takes: the multiples of
\* Math.PI / 4 in [0, 2 * Math.PI)
RandomPhases == {(k * Pi) \div 4 : k \in 0..7}

\* no token built
NoToken == [dimensions |-> <<>>]

\* the calls made on the token so far: updateHamiltonians(), the changes
\* of its dimensions, and the stabilize() calls after them; diverging tells
\* that the stabilize() calls began above the threshold and have not yet
\* brought the divergence below it; same counts the latest energy updates
\* in a row (the constructor's the first) that produced the same H1 and H2
NoneMade ==
    [update |-> 0, edit |-> 0, stabilize |-> 0, diverging |-> FALSE,
     same |-> 1]

\* the count of the latest energy updates in a row with the same H1 and H2,
\* after the update that took the token from before to after
SameAfter(before, after, same) ==
    IF /\ after.H1_coherence = before.H1_coherence
       /\ after.H2_structure = before.H2_structure
    THEN same + 1
    ELSE 1

----------------------------------------------------------------------------
(* HyperpositionWrapper (src/unnamed/part_000).  Its engine is built as     *)
(* new SkipTraceEngine(), so the engine's tokens field is undefined.  A     *)
(* base model is the function telling, for the prompt made from the i-th   *)
(* trace, whether the promise generate returns resolves or rejects.        *)

\* longest input of process(), in concepts
MaxConcepts == 4

\* the base models
BaseModels == [1..3 -> {"resolves", "rejects"}]

\* no process() call made
NoProcess ==
    [input |-> 0, collapseMode |-> "none", outcome |-> "none",
     error |-> "none", generateCalls |-> <<>>]

\* process(input, context): how the promise it returns settles, and the
\* prompts generate was called with, in call order
ProcessOf(engine, model, input, collapseMode) ==
    IF engine.tokens = "undefined"
    THEN \* generateTraces() spreads this.tokens in findAnchors()
         [input |-> input, collapseMode |-> collapseMode,
          outcome |-> "rejected", error |-> "TypeError",
          generateCalls |-> <<>>]
    ELSE LET found == PruneTraces(engine.tokens,
                          TracesFromAnchors(engine.tokens, DefaultThreshold,
                                            FindAnchors(engine.tokens), 1))
             \* tracesToPrompts: traces.slice(0, 3)
             prompts == [i \in 1..Min(3, Len(found)) |-> i]
             rejecting == {i \in 1..Len(prompts) : model[i] = "rejects"}
         IN  IF rejecting # {}
             THEN [input |-> input, collapseMode |-> collapseMode,
                   outcome |-> "rejected", error |-> "generate",
                   generateCalls |-> prompts]
             ELSE IF prompts = <<>>
             THEN \* collapseResponses reads scoredResponses[0].text
                  [input |-> input, collapseMode |-> collapseMode,
                   outcome |-> "rejected", error |-> "TypeError",
                   generateCalls |-> prompts]
             ELSE [input |-> input, collapseMode |-> collapseMode,
                   outcome |-> "resolved", error |-> "none",
                   generateCalls |-> prompts]

----------------------------------------------------------------------------
(* SkipTraceEngine: operations *)

\* new SkipTraceEngine(tokens, threshold), beside an encoder built with the
\* constructor's defaults (100000, 0.02) that is never used
EngineInit ==
    /\ dimensions = 100000
    /\ activeBits = ActiveBitsOf(100000, 2)
    /\ seeds = SeedsOf(<<1, 1>>)
    /\ conceptMemory = <<>>
    /\ firstEncoded = <<>>
    /\ encCall = NoEncCall
    /\ \E input \in EngineInputs :
          /\ tokens = input[1]
          /\ threshold = input[2]
          /\ rand = input[3]
    /\ anchors = <<>>
    /\ rawTraces = <<>>
    /\ traces = <<>>
    /\ generated = 0
    /\ lastCall = NoCall
    /\ rptr = 0
    /\ token = NoToken
    /\ made = NoneMade
    /\ skipEngine = [tokens |-> "undefined"]
    /\ baseModel = [prompt \in 1..3 |-> "resolves"]
    /\ processCall = NoProcess

\* generateTraces()
GenerateTraces ==
    /\ generated < MaxGenerate
    /\ LET found == FindAnchors(tokens)
           raw == TracesFromAnchors(tokens, threshold, found, 1)
           pruned == PruneTraces(tokens, raw)
           scored == ScoreFrom(tokens, pruned, 1, rand, rptr)
       IN  /\ anchors' = found
           /\ rawTraces' = raw
           /\ traces' = SortByCoherence(scored)
           /\ rptr' = (rptr + DrawsOf(pruned)) % RandPeriod
    /\ generated' = generated + 1
    /\ lastCall' = NoCall
    /\ UNCHANGED <<tokens, threshold, rand>>
    /\ UNCHANGED <<encoderVars, tokenVars, wrapperVars>>

\* getBestTrace(): value is <<>> for null, <<trace>> otherwise
GetBestTrace ==
    /\ lastCall' = [op |-> "getBestTrace", minCoherence |-> 0,
                    value |-> BestOf(traces)]
    /\ UNCHANGED <<tokens, threshold, anchors, rawTraces, traces, generated,
                   rand, rptr>>
    /\ UNCHANGED <<encoderVars, tokenVars, wrapperVars>>

\* getCoherentTraces(minCoherence)
GetCoherentTraces ==
    /\ \E m \in MinCoherenceSet :
          lastCall' = [op |-> "getCoherentTraces", minCoherence |-> m,
                       value |-> FilterCoherent(traces, m)]
    /\ UNCHANGED <<tokens, threshold, anchors, rawTraces, traces, generated,
                   rand, rptr>>
    /\ UNCHANGED <<encoderVars, tokenVars, wrapperVars>>

EngineNext == GenerateTraces \/ GetBestTrace \/ GetCoherentTraces

----------------------------------------------------------------------------
(* SparseHyperpositionEncoder: operations *)

\* new SparseHyperpositionEncoder(dimensions, sparsity), beside an engine
\* over no tokens that is never used
EncoderInit ==
    /\ tokens = <<>>
    /\ threshold = DefaultThreshold
    /\ anchors = <<>>
    /\ rawTraces = <<>>
    /\ traces = <<>>
    /\ generated = 0
    /\ lastCall = NoCall
    /\ rand = [i \in 1..RandPeriod |-> 0]
    /\ rptr = 0
    /\ \E config \in EncoderConfigs :
          /\ dimensions = config[1]
          /\ activeBits = ActiveBitsOf(config[1], config[2])
    /\ \E draw \in SeedDraws : seeds = SeedsOf(draw)
    /\ conceptMemory = <<>>
    /\ firstEncoded = <<>>
    /\ encCall = NoEncCall
    /\ token = NoToken
    /\ made = NoneMade
    /\ skipEngine = [tokens |-> "undefined"]
    /\ baseModel = [prompt \in 1..3 |-> "resolves"]
    /\ processCall = NoProcess

\* encode(concept)
Encode ==
    /\ \E concept \in Concepts :
          LET known == Has(conceptMemory, concept)
              pattern == IF known THEN Get(conceptMemory, concept)
                         ELSE NewPattern(seeds, dimensions, activeBits, concept)
          IN  /\ conceptMemory' = IF known THEN conceptMemory
                                  ELSE Set(conceptMemory, concept, pattern)
              /\ firstEncoded' =
                    IF \E k \in 1..Len(firstEncoded) : firstEncoded[k].concept = concept
                    THEN firstEncoded
                    ELSE Append(firstEncoded, [concept |-> concept, pattern |-> pattern])
              /\ encCall' = [NoEncCall EXCEPT !.op = "encode", !.concept = concept,
                                              !.pattern = pattern]
    /\ UNCHANGED <<dimensions, activeBits, seeds>>
    /\ UNCHANGED <<engineVars, tokenVars, wrapperVars>>

\* findInterference(pattern1, pattern2)
FindInterference ==
    /\ \E pattern1 \in Stored(conceptMemory) :
       \E pattern2 \in Stored(conceptMemory) \cup OddPatterns :
          LET r == FindInterferenceResult(dimensions, activeBits, pattern1, pattern2)
          IN  encCall' = [NoEncCall EXCEPT !.op = "findInterference",
                                           !.pattern1 = pattern1,
                                           !.pattern2 = pattern2,
                                           !.pattern = r.pattern,
                                           !.num = r.num, !.den = r.den]
    /\ UNCHANGED <<dimensions, activeBits, seeds, conceptMemory, firstEncoded>>
    /\ UNCHANGED <<engineVars, tokenVars, wrapperVars>>

\* calculateResonance(pattern1, pattern2)
CalculateResonance ==
    /\ \E pattern1 \in PatternArgs :
       \E pattern2 \in {pattern1}
                        \cup (IF pattern1 \in Stored(conceptMemory)
                              THEN Stored(conceptMemory) \cup OddPatterns ELSE {}) :
          LET r == CalculateResonanceResult(dimensions, pattern1, pattern2)
          IN  encCall' = [NoEncCall EXCEPT !.op = "calculateResonance",
                                           !.pattern1 = pattern1,
                                           !.pattern2 = pattern2,
                                           !.num = r.num, !.den = r.den]
    /\ UNCHANGED <<dimensions, activeBits, seeds, conceptMemory, firstEncoded>>
    /\ UNCHANGED <<engineVars, tokenVars, wrapperVars>>

\* superpose(patterns)
Superpose ==
    /\ \E patterns \in DistinctLists(Stored(conceptMemory) \cup OddPatterns,
                                      MaxSuperposed) :
          encCall' = [NoEncCall EXCEPT !.op = "superpose",
                                       !.patterns = patterns,
                                       !.pattern = SuperposeResult(dimensions, patterns)]
    /\ UNCHANGED <<dimensions, activeBits, seeds, conceptMemory, firstEncoded>>
    /\ UNCHANGED <<engineVars, tokenVars, wrapperVars>>

\* applyPhase(pattern, phase); phase is in units of 2 * pi / PhaseTurns
ApplyPhase ==
    /\ \E pattern \in RecallArgs, turn \in 0..(PhaseTurns - 1) :
          encCall' = [NoEncCall EXCEPT
                         !.op = "applyPhase",
                         !.pattern1 = pattern,
                         !.phase = turn,
                         !.pattern = ApplyPhaseResult(dimensions, activeBits,
                                                      pattern, turn, PhaseTurns)]
    /\ UNCHANGED <<dimensions, activeBits, seeds, conceptMemory, firstEncoded>>
    /\ UNCHANGED <<engineVars, tokenVars, wrapperVars>>

\* weightedSuperpose(patterns), on the components emotionalSuperposition
\* builds for a map of emotions already encoded:
\* {pattern: applyPhase(basePattern, config.phase), weight, phase}
WeightedSuperpose ==
    /\ \E bases \in DistinctLists(1..Len(conceptMemory), MaxComponents) :
       \E config \in [1..Len(bases) -> WeightSet \X ComponentPhases] :
          LET components ==
                  [k \in 1..Len(bases) |->
                      [pattern |-> ApplyPhaseResult(dimensions, activeBits,
                                       conceptMemory[bases[k]].pattern,
                                       config[k][2], PhaseTurns),
                       weight |-> config[k][1],
                       phase |-> config[k][2]]]
          IN
          encCall' = [NoEncCall EXCEPT
                         !.op = "weightedSuperpose",
                         !.patterns = components,
                         !.pattern = WeightedSuperposeResult(dimensions, components)]
    /\ UNCHANGED <<dimensions, activeBits, seeds, conceptMemory, firstEncoded>>
    /\ UNCHANGED <<engineVars, tokenVars, wrapperVars>>

\* decode(pattern, threshold)
Decode ==
    /\ \E pattern \in RecallArgs, t \in DecodeThresholds :
          encCall' = [NoEncCall EXCEPT
                         !.op = "decode",
                         !.pattern1 = pattern,
                         !.threshold = t,
                         !.matches = DecodeResult(dimensions, conceptMemory,
                                                  pattern, t)]
    /\ UNCHANGED <<dimensions, activeBits, seeds, conceptMemory, firstEncoded>>
    /\ UNCHANGED <<engineVars, tokenVars, wrapperVars>>

\* generateSkipTrace(startPattern, endPattern, intermediates)
GenerateSkipTrace ==
    /\ \E startPattern \in Stored(conceptMemory), endPattern \in Stored(conceptMemory) :
       \E intermediates \in DistinctLists(Stored(conceptMemory), MaxIntermediates) :
          encCall' = [NoEncCall EXCEPT
                         !.op = "generateSkipTrace",
                         !.pattern1 = startPattern,
                         !.pattern2 = endPattern,
                         !.patterns = intermediates,
                         !.skipTrace = GenerateSkipTraceResult(dimensions,
                                          startPattern, endPattern, intermediates)]
    /\ UNCHANGED <<dimensions, activeBits, seeds, conceptMemory, firstEncoded>>
    /\ UNCHANGED <<engineVars, tokenVars, wrapperVars>>

EncoderNext ==
    \/ Encode
    \/ FindInterference
    \/ CalculateResonance
    \/ Superpose
    \/ ApplyPhase
    \/ WeightedSuperpose
    \/ Decode
    \/ GenerateSkipTrace

----------------------------------------------------------------------------
(* BiHamiltonianToken: operations *)

\* new BiHamiltonianToken(surface, universal), beside an engine over no
\* tokens and an encoder built with defaults, neither ever used
TokenInit ==
    /\ tokens = <<>>
    /\ threshold = DefaultThreshold
    /\ anchors = <<>>
    /\ rawTraces = <<>>
    /\ traces = <<>>
    /\ generated = 0
    /\ lastCall = NoCall
    /\ rand = [i \in 1..RandPeriod |-> 0]
    /\ rptr = 0
    /\ dimensions = 100000
    /\ activeBits = ActiveBitsOf(100000, 2)
    /\ seeds = SeedsOf(<<1, 1>>)
    /\ conceptMemory = <<>>
    /\ firstEncoded = <<>>
    /\ encCall = NoEncCall
    /\ \E draws \in TokenDraws : token = NewToken(draws)
    /\ made = NoneMade
    /\ skipEngine = [tokens |-> "undefined"]
    /\ baseModel = [prompt \in 1..3 |-> "resolves"]
    /\ processCall = NoProcess

\* token.updateHamiltonians()
UpdateHamiltonians ==
    /\ made.update < MaxUpdates
    /\ made.stabilize = 0
    /\ token' = UpdateHamiltoniansOf(token)
    /\ made' = [made EXCEPT !.update = @ + 1,
                            !.same = SameAfter(token, token', @)]
    /\ UNCHANGED <<engineVars, encoderVars, wrapperVars>>

\* token.addEmotionalComponent(emotion, weight, phase); made before any
\* stabilize() call, so every phase of the token is still 0 or Math.PI
AddEmotionalComponent ==
    /\ made.edit < MaxEdits
    /\ made.update = 0
    /\ made.stabilize = 0
    /\ \E emotion \in Emotions, weight \in TokenWeights, phase \in TokenPhases :
          token' = AddEmotionalComponentTo(token, emotion, weight, phase)
    /\ made' = [made EXCEPT !.edit = @ + 1]
    /\ UNCHANGED <<engineVars, encoderVars, wrapperVars>>

\* token.collapse(context); like every change of the dimensions, made
\* before the first updateHamiltonians() call
Collapse ==
    /\ made.edit < MaxEdits
    /\ made.update = 0
    /\ made.stabilize = 0
    /\ \E context \in Contexts : token' = CollapseOf(token, context)
    /\ made' = [made EXCEPT !.edit = @ + 1]
    /\ UNCHANGED <<engineVars, encoderVars, wrapperVars>>

\* token.addConnection(other, strength)
AddConnection ==
    /\ made.edit < MaxEdits
    /\ made.update = 0
    /\ made.stabilize = 0
    /\ \E strength \in Strengths : token' = AddConnectionTo(token, strength)
    /\ made' = [made EXCEPT !.edit = @ + 1]
    /\ UNCHANGED <<engineVars, encoderVars, wrapperVars>>

\* token.stabilize()
Stabilize ==
    /\ made.stabilize < MaxStabilize
    /\ token' = StabilizeOf(token)
    /\ made' = [made EXCEPT
                   !.stabilize = @ + 1,
                   !.same = SameAfter(token, token', @),
                   !.diverging =
                       /\ IF made.stabilize = 0
                          THEN Divergence(token) > token.divergenceThreshold
                          ELSE made.diverging
                       /\ ~(Divergence(token') < token.divergenceThreshold)]
    /\ UNCHANGED <<engineVars, encoderVars, wrapperVars>>

\* the loop of createHyperpositionStates over the emotions detected in the
\* concept of the token just built:
\* state.addEmotionalComponent(emotion, weight, Math.random() * Math.PI * 2)
AddDetectedEmotions ==
    /\ made.edit = 0
    /\ made.update = 0
    /\ made.stabilize = 0
    /\ \E emotions \in EmotionMap, first \in RandomPhases,
          second \in RandomPhases :
          token' = AddEmotionalComponentTo(
                       AddEmotionalComponentTo(token, emotions[1].emotion,
                                               emotions[1].weight, first),
                       emotions[2].emotion, emotions[2].weight, second)
    /\ made' = [made EXCEPT !.edit = @ + 1]
    /\ UNCHANGED <<engineVars, encoderVars, wrapperVars>>

TokenNext ==
    \/ UpdateHamiltonians
    \/ AddEmotionalComponent
    \/ Collapse
    \/ AddConnection
    \/ Stabilize

----------------------------------------------------------------------------
(* HyperpositionWrapper: operations *)

\* new HyperpositionWrapper(baseModel), beside an engine over no tokens and
\* an encoder built with defaults, neither ever used, and no token
WrapperInit ==
    /\ tokens = <<>>
    /\ threshold = DefaultThreshold
    /\ anchors = <<>>
    /\ rawTraces = <<>>
    /\ traces = <<>>
    /\ generated = 0
    /\ lastCall = NoCall
    /\ rand = [i \in 1..RandPeriod |-> 0]
    /\ rptr = 0
    /\ dimensions = 100000
    /\ activeBits = ActiveBitsOf(100000, 2)
    /\ seeds = SeedsOf(<<1, 1>>)
    /\ conceptMemory = <<>>
    /\ firstEncoded = <<>>
    /\ encCall = NoEncCall
    /\ token = NoToken
    /\ made = NoneMade
    /\ skipEngine = [tokens |-> "undefined"]
    /\ baseModel \in BaseModels
    /\ processCall = NoProcess

\* await wrapper.process(input, context), input given by the number of its
\* concepts
Process ==
    /\ \E input \in 0..MaxConcepts,
          collapseMode \in {"highest", "blend", "undefined"} :
          processCall' = ProcessOf(skipEngine, baseModel, input, collapseMode)
    /\ UNCHANGED <<skipEngine, baseModel>>
    /\ UNCHANGED <<engineVars, encoderVars, tokenVars>>

WrapperNext == Process

----------------------------------------------------------------------------
(* Specifications: one per component, the other component left as built *)

SpecEngine == EngineInit /\ [][EngineNext]_vars

SpecEncoder == EncoderInit /\ [][EncoderNext]_vars

SpecToken == TokenInit /\ [][TokenNext]_vars

\* a token as HyperpositionWrapper.createHyperpositionStates builds it, then
\* stabilized
DetectedNext == AddDetectedEmotions \/ Stabilize

SpecDetected == TokenInit /\ [][DetectedNext]_vars

SpecWrapper == WrapperInit /\ [][WrapperNext]_vars

----------------------------------------------------------------------------
(* Claims about the skip-trace engine (checked under SpecEngine) *)

\* the category tags along a trace
TagSeq(trace) == [i \in 1..Len(trace.path) |-> tokens[trace.path[i]].universal]

\* coherence of a >= coherence of b
CohGE(a, b) == a.coherence.num * b.coherence.den >= b.coherence.num * a.coherence.den

\* C1: with the default parameters, every trace generateTraces() returns holds
\* at least one and at most maxTraceLength tokens.
C1_TraceLengthWithinMax ==
    threshold = DefaultThreshold =>
        \A k \in 1..Len(traces) :
            /\ Len(traces[k].path) >= 1
            /\ Len(traces[k].path) <= maxTraceLength

\* C2: no trace generateTraces() returns holds the same token at two
\* positions.
C2_NoTokenTwice ==
    \A k \in 1..Len(traces) :
        \A i, j \in 1..Len(traces[k].path) :
            i # j => traces[k].path[i] # traces[k].path[j]

\* a returned trace that ran through every token of a collection of four or
\* more: the search stopped only because every other token was on the path
C2_Witness ==
    /\ generated > 0
    /\ Len(tokens) >= 4
    /\ \E k \in 1..Len(traces) : Len(traces[k].path) = Len(tokens)

\* C3: every surviving trace has at least 3 tokens, no two surviving traces
\* have the same sequence of category tags, and the survivors are exactly the
\* raw traces of 3 or more tokens that come first among the raw traces with
\* their tag sequence, in discovery order.
C3_PrunedTraces ==
    LET tags == [k \in 1..Len(rawTraces) |-> TagSeq(rawTraces[k])]
        long == {k \in 1..Len(rawTraces) : Len(rawTraces[k].path) >= 3}
        firsts == {k \in long : \A j \in long : tags[j] = tags[k] => j >= k}
    IN  /\ \A k \in 1..Len(traces) : Len(traces[k].path) >= 3
        /\ \A i, j \in 1..Len(traces) :
              i # j => TagSeq(traces[i]) # TagSeq(traces[j])
        /\ Len(traces) = Cardinality(firsts)
        /\ \A k \in firsts :
              \E i \in 1..Len(traces) :
                  /\ traces[i].path = rawTraces[k].path
                  /\ traces[i].energy = rawTraces[k].energy

\* the search found two raw traces of 3 or more tokens with one tag sequence
\* and different paths, and raw traces of fewer than 3 tokens
C3_Witness ==
    /\ generated > 0
    /\ \E i, j \in 1..Len(rawTraces) :
          /\ i < j
          /\ Len(rawTraces[i].path) >= 3
          /\ TagSeq(rawTraces[i]) = TagSeq(rawTraces[j])
          /\ rawTraces[i].path # rawTraces[j].path
    /\ \E k \in 1..Len(rawTraces) : Len(rawTraces[k].path) < 3
    /\ Len(traces) >= 2

\* C4: with an empty token collection generateTraces() returns an empty list
\* and getBestTrace() then returns null.
C4_EmptyCollection ==
    (tokens = <<>> /\ generated > 0) =>
        /\ traces = <<>>
        /\ lastCall.op = "getBestTrace" => lastCall.value = <<>>

\* getBestTrace() was called after generateTraces() on an empty collection
C4_Witness ==
    /\ tokens = <<>>
    /\ generated > 0
    /\ lastCall.op = "getBestTrace"

\* the k-th smallest member of a set of numbers
Nth(set, n) == CHOOSE k \in set : Cardinality({j \in set : j <= k}) = n

\* C5: the returned list is in non-increasing coherence order; getBestTrace()
\* returns its first element, of maximal coherence; getCoherentTraces(m)
\* returns exactly the traces with coherence >= m, in ranking order.
C5_Ranking ==
    /\ \A k \in 1..(Len(traces) - 1) : CohGE(traces[k], traces[k + 1])
    /\ (lastCall.op = "getBestTrace" /\ Len(traces) > 0) =>
          /\ lastCall.value = <<traces[1]>>
          /\ \A k \in 1..Len(traces) : CohGE(lastCall.value[1], traces[k])
    /\ lastCall.op = "getCoherentTraces" =>
          LET m == lastCall.minCoherence
              hits == {k \in 1..Len(traces) :
                          traces[k].coherence.num
                              >= m * 100 * traces[k].coherence.den}
          IN  /\ Len(lastCall.value) = Cardinality(hits)
              /\ \A n \in 1..Len(lastCall.value) :
                    lastCall.value[n] = traces[Nth(hits, n)]

\* traces of different coherence were ranked, in another order than they were
\* found in, and getCoherentTraces kept some of them and dropped others
C5_Witness ==
    /\ Len(traces) >= 3
    /\ ~ CohGE(traces[Len(traces)], traces[1])
    /\ \E i, j \in 1..Len(rawTraces) :
          /\ i < j
          /\ rawTraces[i].path = traces[2].path
          /\ rawTraces[j].path = traces[1].path
    /\ lastCall.op = "getCoherentTraces"
    /\ Len(lastCall.value) > 0
    /\ Len(lastCall.value) < Len(traces)

\* C6: for N >= 1 tokens findAnchors() returns max(1, ceil(0.3 N)) tokens,
\* none with a lower energy feature than a token left out, and every returned
\* trace starts at an anchor.
C6_Anchors ==
    (generated > 0 /\ Len(tokens) >= 1) =>
        LET N == Len(tokens)
            ceil == CHOOSE c \in 0..N : 10 * c >= 3 * N /\ 10 * (c - 1) < 3 * N
        IN  /\ Len(anchors) = (IF ceil > 1 THEN ceil ELSE 1)
            /\ \A i, j \in 1..Len(anchors) : i # j => anchors[i] # anchors[j]
            /\ \A i \in 1..Len(anchors) :
                  /\ anchors[i] \in 1..N
                  /\ \A k \in (1..N) \ Range(anchors) :
                        tokens[anchors[i]].dimensions.energy
                            >= tokens[k].dimensions.energy
            /\ \A k \in 1..Len(traces) : traces[k].path[1] \in Range(anchors)

\* the anchors are not the first tokens of the collection, a token of lower
\* energy was left out, and traces were returned
C6_Witness ==
    /\ generated > 0
    /\ Len(tokens) >= 4
    /\ Len(anchors) = 2
    /\ 1 \notin Range(anchors)
    /\ tokens[1].dimensions.energy < tokens[anchors[2]].dimensions.energy
    /\ traces # <<>>

----------------------------------------------------------------------------
(* Claims about the sparse encoder (checked under SpecEncoder) *)

\* the ids encoded so far
EncodedIds == {firstEncoded[k].concept : k \in 1..Len(firstEncoded)}

\* C7: every call encode(id) returns the pattern the first encode(id)
\* returned, bit for bit, and conceptMemory holds exactly one entry per
\* distinct id encoded so far.
C7_EncodeDeterministic ==
    /\ encCall.op = "encode" =>
          \E k \in 1..Len(firstEncoded) :
              /\ firstEncoded[k].concept = encCall.concept
              /\ firstEncoded[k].pattern = encCall.pattern
    /\ {conceptMemory[k].concept : k \in 1..Len(conceptMemory)} = EncodedIds
    /\ \A id \in EncodedIds :
          Cardinality({k \in 1..Len(conceptMemory) :
                          conceptMemory[k].concept = id}) = 1

\* an id was encoded again after another id had been encoded in between
C7_Witness ==
    /\ Len(conceptMemory) >= 2
    /\ encCall.op = "encode"
    /\ encCall.concept = conceptMemory[1].concept
    /\ encCall.pattern.active # {}

\* C8: with dimensions = 10000 and sparsity = 0.02 (activeBits = 200) every
\* pattern encode produces has between 140 and 260 active bits.
C8_ActiveBitCount ==
    (dimensions = 10000 /\ activeBits = 200) =>
        \A pattern \in Stored(conceptMemory) :
            /\ Cardinality(pattern.active) >= 140
            /\ Cardinality(pattern.active) <= 260

\* C9: for every pattern p encode returned, findInterference(p, p).strength
\* is exactly 1.0.
C9_SelfInterferenceIsOne ==
    (encCall.op = "findInterference" /\ encCall.pattern1 = encCall.pattern2) =>
        /\ encCall.den # 0
        /\ encCall.num = encCall.den

\* C10 as stated: calculateResonance(a, a) = 1 for every bit vector a of the
\* encoder's width.
C10_SelfResonanceIsOne ==
    (encCall.op = "calculateResonance" /\ encCall.pattern1 = encCall.pattern2) =>
        encCall.num = encCall.den

\* C10, amended: calculateResonance(a, a) = 1 for every bit vector a with at
\* least one active bit, and 0 for the all-zero vector.
C10_SelfResonance ==
    (encCall.op = "calculateResonance" /\ encCall.pattern1 = encCall.pattern2) =>
        IF encCall.pattern1.active # {}
        THEN encCall.den > 0 /\ encCall.num = encCall.den
        ELSE encCall.den > 0 /\ encCall.num = 0

\* calculateResonance(a, a) was called on a vector of two or more active bits
\* and at least one inactive bit that no encode call produced
C10_Witness ==
    /\ encCall.op = "calculateResonance"
    /\ encCall.pattern1 = encCall.pattern2
    /\ encCall.pattern1 \notin Stored(conceptMemory)
    /\ Cardinality(encCall.pattern1.active) >= 2
    /\ Cardinality(encCall.pattern1.active) < dimensions

\* the calls that take patterns, and the patterns the last call was given
PatternOps == {"superpose", "findInterference", "calculateResonance"}

GivenPatterns ==
    IF encCall.op = "superpose" THEN Range(encCall.patterns)
    ELSE {encCall.pattern1, encCall.pattern2}

LastShift ==
    CHOOSE n \in 0..activeBits :
        /\ n * PhaseTurns <= encCall.phase * activeBits
        /\ (n + 1) * PhaseTurns > encCall.phase * activeBits

\* C12: for every pattern p and phase in [0, 2 * pi), applyPhase(p, phase) has
\* as many active bits as p, its active indices are those of p shifted by
\* floor(phase / (2 * pi) * activeBits) modulo dimensions, and
\* applyPhase(p, 0) equals p.
C12_PhaseShiftsIndices ==
    encCall.op = "applyPhase" =>
        /\ Cardinality(encCall.pattern.active) = Cardinality(encCall.pattern1.active)
        /\ encCall.pattern.length = dimensions
        /\ \A i \in encCall.pattern1.active :
              ((i + LastShift) % dimensions) \in encCall.pattern.active
        /\ \A j \in encCall.pattern.active :
              \E i \in encCall.pattern1.active : j = (i + LastShift) % dimensions
        /\ encCall.phase = 0 => encCall.pattern = encCall.pattern1

\* a pattern of two or more active bits was shifted by a non-zero amount that
\* carried one of them past the last index and round to the front
C12_Witness ==
    /\ encCall.op = "applyPhase"
    /\ LastShift > 0
    /\ Cardinality(encCall.pattern1.active) >= 2
    /\ encCall.pattern # encCall.pattern1
    /\ \E i \in encCall.pattern1.active :
          /\ i + LastShift >= dimensions
          /\ (i + LastShift) - dimensions \in encCall.pattern.active

\* the last call was weightedSuperpose on exactly two components of equal
\* weight, same size and opposite phase
TwoAntiphase ==
    /\ encCall.op = "weightedSuperpose"
    /\ Len(encCall.patterns) = 2
    /\ encCall.patterns[1].weight = encCall.patterns[2].weight
    /\ encCall.patterns[1].pattern.length = encCall.patterns[2].pattern.length
    /\ Abs(encCall.patterns[1].phase - encCall.patterns[2].phase) = HalfTurn

\* the bits set in only one of the two patterns
OnlyOne ==
    (encCall.patterns[1].pattern.active \cup encCall.patterns[2].pattern.active)
    \ (encCall.patterns[1].pattern.active \cap encCall.patterns[2].pattern.active)

JaccardWith(k) ==
    [overlap |-> Cardinality(encCall.pattern1.active \cap conceptMemory[k].pattern.active),
     union |-> Cardinality(encCall.pattern1.active \cup conceptMemory[k].pattern.active)]

\* the stored entries whose resonance with the decoded pattern is above the
\* threshold of the last call
Clearing ==
    {k \in 1..Len(conceptMemory) :
        10 * JaccardWith(k).overlap > encCall.threshold * JaccardWith(k).union}

\* the matches are the clearing entries, each once and with its resonance, in
\* non-increasing resonance order
MatchesAreClearing ==
    /\ Len(encCall.matches) = Cardinality(Clearing)
    /\ \A k \in Clearing :
          \E n \in 1..Len(encCall.matches) :
              /\ encCall.matches[n].concept = conceptMemory[k].concept
              /\ encCall.matches[n].num * JaccardWith(k).union
                    = JaccardWith(k).overlap * encCall.matches[n].den
    /\ \A n \in 1..(Len(encCall.matches) - 1) :
          encCall.matches[n].num * encCall.matches[n + 1].den
              >= encCall.matches[n + 1].num * encCall.matches[n].den

\* C14 as stated: decode(pattern, t) returns exactly the stored concepts whose
\* resonance with pattern is above t, in non-increasing resonance order, an
\* empty list when nothing clears t, and decode(encode(x)) lists x first with
\* resonance 1.
C14_DecodeRecalls ==
    encCall.op = "decode" =>
        /\ MatchesAreClearing
        /\ \A k \in 1..Len(conceptMemory) :
              (encCall.pattern1 = conceptMemory[k].pattern /\ encCall.threshold = 3) =>
                  /\ encCall.matches # <<>>
                  /\ encCall.matches[1].num = encCall.matches[1].den
                  /\ \E j \in 1..Len(conceptMemory) :
                        /\ conceptMemory[j].pattern = encCall.pattern1
                        /\ encCall.matches[1].concept = conceptMemory[j].concept

\* C14, amended: decode(pattern, t) returns exactly the stored concepts whose
\* resonance with pattern is above t, in non-increasing resonance order (empty
\* when nothing clears t); decode(encode(x)) lists a concept stored with the
\* pattern of x first, with resonance 1, when that pattern has an active bit,
\* and lists nothing with resonance 1 when it is all zero.
C14_DecodeFilters ==
    encCall.op = "decode" =>
        /\ MatchesAreClearing
        /\ \A k \in 1..Len(conceptMemory) :
              (encCall.pattern1 = conceptMemory[k].pattern /\ encCall.threshold = 3) =>
                  IF encCall.pattern1.active # {}
                  THEN /\ encCall.matches # <<>>
                       /\ encCall.matches[1].num = encCall.matches[1].den
                       /\ \E j \in 1..Len(conceptMemory) :
                             /\ conceptMemory[j].pattern = encCall.pattern1
                             /\ encCall.matches[1].concept = conceptMemory[j].concept
                  ELSE encCall.matches = <<>>

\* decode returned two matches of different resonance, the better one stored
\* second
C14_Witness ==
    /\ encCall.op = "decode"
    /\ Len(conceptMemory) = 2
    /\ Len(encCall.matches) = 2
    /\ encCall.matches[1].concept = conceptMemory[2].concept
    /\ encCall.matches[1].num * encCall.matches[2].den
          > encCall.matches[2].num * encCall.matches[1].den

\* at least one intermediate of the last generateSkipTrace call was left out
\* of the trace
IntermediateSkipped == Len(encCall.skipTrace.kept) < Len(encCall.patterns)

\* C15 as stated: generateSkipTrace reports isNonLinear = true if and only if
\* at least one intermediate pattern was skipped.
C15_NonLinearIffSkipped ==
    encCall.op = "generateSkipTrace" =>
        (encCall.skipTrace.isNonLinear <=> IntermediateSkipped)

\* C15, amended: isNonLinear is true if and only if the returned trace is
\* shorter than all intermediates plus start and end, that is, if an
\* intermediate was skipped or the end pattern was not appended.
C15_NonLinearIffShorter ==
    encCall.op = "generateSkipTrace" =>
        /\ Len(encCall.skipTrace.trace)
              = 1 + Len(encCall.skipTrace.kept)
                  + (IF encCall.skipTrace.endPushed THEN 1 ELSE 0)
        /\ encCall.skipTrace.isNonLinear
              <=> (IntermediateSkipped \/ ~ encCall.skipTrace.endPushed)
        /\ encCall.skipTrace.isNonLinear
              <=> (Len(encCall.skipTrace.trace) < Len(encCall.patterns) + 2)

\* every intermediate was kept and the end pattern was not reached: the trace
\* is reported non-linear with nothing skipped
C15_Witness ==
    /\ encCall.op = "generateSkipTrace"
    /\ Len(encCall.patterns) >= 1
    /\ ~ IntermediateSkipped
    /\ ~ encCall.skipTrace.endPushed
    /\ encCall.skipTrace.isNonLinear

----------------------------------------------------------------------------
(* Claims about the stability token (checked under SpecToken) *)

\* no updateHamiltonians() or stabilize() call since the constructor
FreshlyBuilt == made.update = 0 /\ made.stabilize = 0

\* C16: a BiHamiltonianToken that has had no energy update beyond its
\* construction has velocity, acceleration, jerk and snap all equal to 0
C16_FreshTokenAtRest ==
    FreshlyBuilt =>
        /\ token.derivatives.velocity = 0
        /\ token.derivatives.acceleration = 0
        /\ token.derivatives.jerk = 0
        /\ token.derivatives.snap = 0

\* the rule of the stability status: the divergence below 0.3, |jerk| and
\* |snap| within 1.0 and 2.0
WithinThresholds ==
    /\ Divergence(token) < (3 * Precision) \div 10
    /\ Abs(token.derivatives.jerk) <= (2 * Precision) \div 1000
    /\ Abs(token.derivatives.snap) <= (2 * 2 * Precision) \div 10000

\* C17: in every reachable token state isStable() is true, and the status
\* of GhostStateDetector.analyze(token) is STABLE, if and only if the
\* divergence |H1 - H2| is below 0.3 and |jerk| and |snap| are within 1.0
\* and 2.0; so analyze reports STABLE exactly when isStable() is true
C17_StableIffWithinThresholds ==
    /\ IsStable(token) <=> WithinThresholds
    /\ (AnalyzeStatus(token) = "STABLE") <=> WithinThresholds

\* C18: after any sequence of token operations the stored energies
\* H1_coherence and H2_structure both lie in [0,1]
C18_EnergiesInUnitRange ==
    /\ 0 <= token.H1_coherence /\ token.H1_coherence <= Precision
    /\ 0 <= token.H2_structure /\ token.H2_structure <= Precision

\* the energy updates made on the token, the constructor's included
EnergyUpdates == 1 + made.update + made.stabilize

\* C19: the token carries a history of (H1, H2, timestamp) samples, one
\* appended per energy update, that never holds more than 100 samples and
\* ends with the sample of the latest update
C19_HistoryKept ==
    /\ "history" \in DOMAIN token
    /\ Len(token.history) = Min(EnergyUpdates, 100)
    /\ token.history[Len(token.history)].H1 = token.H1_coherence
    /\ token.history[Len(token.history)].H2 = token.H2_structure

\* the coming stabilize() call belongs to a run that began above the
\* threshold and has not yet come below it
StillDiverging ==
    IF made.stabilize = 0
    THEN Divergence(token) > token.divergenceThreshold
    ELSE made.diverging

\* C20: from a token state whose divergence is above 0.3, every successive
\* stabilize() call strictly decreases the divergence until it is below
\* 0.3, and that point is reached within at most 10 calls
C20_StabilizeConverges ==
    [][(made'.stabilize = made.stabilize + 1 /\ StillDiverging)
         => /\ Divergence(token') < Divergence(token)
            /\ made'.stabilize >= 10
                  => Divergence(token') < token.divergenceThreshold]_vars

\* C21: after any sequence of token operations each of the eight features
\* lies in [0,1] and the eight features sum to 1 (to within 0.001, the
\* tolerance of the test "should normalize dimensions")
C21_FeaturesOnSimplex ==
    /\ \A i \in 1..NumDims :
          0 <= token.dimensions[i] /\ token.dimensions[i] <= Precision
    /\ Abs(DimSum(token.dimensions) - Precision) <= Precision \div 1000

----------------------------------------------------------------------------
(* Claims about the tokens and the search of the processor (checked under  *)
(* SpecEngine)                                                             *)

\* C22: resonanceWith(other) returns exactly the weighted closeness sum over
\* the eight features (1.0 is 100000): the next two calls on any two tokens
\* of the collection both return it, and it is 1.0 for two tokens with the
\* same features
C22_ResonanceIsWeightedSum ==
    \A i \in 1..Len(tokens), j \in 1..Len(tokens) :
        LET first == ResonanceWith(tokens[i], tokens[j], RandomAt(rand, rptr))
            second == ResonanceWith(tokens[i], tokens[j],
                                    RandomAt(rand, rptr + 1))
        IN  /\ first = 100 * SumDimResonance(tokens[i], tokens[j], Len(Dims))
            /\ 0 <= first /\ first <= 100000
            /\ second = first
            /\ tokens[i].dimensions = tokens[j].dimensions => first = 100000

\* C23: processText on a text that yields at least one content token
\* returns a non-empty traces list (the traces of the engine it builds over
\* the tokens) and a non-null bestTrace
C23_ContentGivesTraces ==
    (generated > 0 /\ Len(tokens) >= 1)
        => /\ traces # <<>>
           /\ BestOf(traces) # <<>>
           /\ lastCall.op = "getBestTrace" => lastCall.value # <<>>

\* configurations given to new HSTNNProcessor(config): the defaults, and
\* two custom ones
ProcessorConfigs ==
    {[skipThreshold |-> DefaultThreshold, maxTraceLength |-> maxTraceLength,
      branchingFactor |-> branchingFactor],
     [skipThreshold |-> DefaultThreshold, maxTraceLength |-> 3,
      branchingFactor |-> 1],
     [skipThreshold |-> HighThreshold, maxTraceLength |-> 4,
      branchingFactor |-> 2]}

\* the configurations of a processor whose processText builds the engine
\* as it is: new SkipTraceEngine(hyperTokens, this.config.skipThreshold)
ConfigsOfEngine == {config \in ProcessorConfigs : config.skipThreshold = threshold}

\* the successors the search expanded the node reached by path into
Successors(path) ==
    {trace.path[Len(path) + 1] :
        trace \in {t \in Range(rawTraces) :
                      /\ Len(t.path) > Len(path)
                      /\ SubSeq(t.path, 1, Len(path)) = path}}

\* the nodes of the search: the non-empty prefixes of the paths found
SearchNodes ==
    UNION {{SubSeq(trace.path, 1, n) : n \in 1..Len(trace.path)} :
              trace \in Range(rawTraces)}

\* C24: the search run by processText honours the processor's
\* configuration: every returned trace has at most config.maxTraceLength
\* tokens and no search node is expanded into more than
\* config.branchingFactor successors
C24_ConfigurationHonoured ==
    generated > 0 =>
        \A config \in ConfigsOfEngine :
            /\ \A i \in 1..Len(traces) :
                  Len(traces[i].path) <= config.maxTraceLength
            /\ \A path \in SearchNodes :
                  Cardinality(Successors(path)) <= config.branchingFactor

\* the tokens off the path when the token at place i + 1 of path was chosen
OffPath(path, i) == (1..Len(tokens)) \ Range(SubSeq(path, 1, i))

\* the tokens off the path then that score strictly higher from the token
\* at place i than the one chosen
Higher(path, i) ==
    {c \in OffPath(path, i) :
        SkipScore(tokens[path[i]], tokens[c])
            > SkipScore(tokens[path[i]], tokens[path[i + 1]])}

\* C26: in every trace generateTraces() returns, each consecutive pair
\* (a, b) has skipScore(a, b) > threshold, and at most branchingFactor - 1
\* tokens that were off the path when b was chosen score strictly higher
\* from a than b does
C26_StepsAmongBest ==
    \A k \in 1..Len(traces) :
        \A i \in 1..(Len(traces[k].path) - 1) :
            /\ AboveThreshold(SkipScore(tokens[traces[k].path[i]],
                                        tokens[traces[k].path[i + 1]]),
                              threshold)
            /\ Cardinality(Higher(traces[k].path, i)) <= branchingFactor - 1

\* a returned trace took a step to a token that was not the best one off
\* the path, from a token with more candidates above the threshold than
\* the search follows
C26_Witness ==
    /\ generated > 0
    /\ \E k \in 1..Len(traces) :
          \E i \in 1..(Len(traces[k].path) - 1) :
              /\ Higher(traces[k].path, i) # {}
              /\ Cardinality({c \in OffPath(traces[k].path, i) :
                                 AboveThreshold(
                                     SkipScore(tokens[traces[k].path[i]],
                                               tokens[c]),
                                     threshold)}) > branchingFactor

\* C27: generateTraces() terminates on every finite token collection, even
\* when no transition costs energy and every score clears the threshold:
\* each traceFromToken call adds a token not yet on the path, so no path the
\* search finds (each the record of one chain of recursive calls) is longer
\* than the number of tokens N, nor holds a token twice
C27_DepthWithinTokens ==
    generated > 0 =>
        \A k \in 1..Len(rawTraces) :
            /\ Len(rawTraces[k].path) <= Len(tokens)
            /\ Cardinality(Range(rawTraces[k].path)) = Len(rawTraces[k].path)

\* the search ran over tokens of equal semantic features that all clear the
\* threshold from each other: no step cost energy, and a chain of calls
\* ended only when every token was on its path
C27_Witness ==
    /\ generated > 0
    /\ Len(tokens) >= 4
    /\ \A i, j \in 1..Len(tokens) :
          /\ tokens[i].dimensions.semantic = tokens[j].dimensions.semantic
          /\ AboveThreshold(SkipScore(tokens[i], tokens[j]), threshold)
    /\ \A k \in 1..Len(rawTraces) :
          /\ rawTraces[k].energy = 0
          /\ Len(rawTraces[k].path) = Len(tokens)
          /\ ~rawTraces[k].complete

\* C28: for tokens with features in [0,1], the energy recorded on every
\* trace (initial energy minus remaining energy) lies in [0, 1.0], so the
\* energy-efficiency bonus 0.2 * (1 - energy / 1.0) lies in [0, 0.2]
C28_EnergyWithinBudget ==
    /\ \A k \in 1..Len(rawTraces) :
          0 <= rawTraces[k].energy /\ rawTraces[k].energy <= TotalEnergy
    /\ \A k \in 1..Len(traces) :
          0 <= traces[k].energy /\ traces[k].energy <= TotalEnergy

----------------------------------------------------------------------------
(* More claims about the stability token (checked under SpecToken) *)

\* velocity, acceleration, jerk and snap are all 0
AtRest ==
    /\ token.derivatives.velocity = 0
    /\ token.derivatives.acceleration = 0
    /\ token.derivatives.jerk = 0
    /\ token.derivatives.snap = 0

\* C29: after five consecutive energy updates that produce the same H1 and
\* H2, velocity, acceleration, jerk and snap are all exactly 0, and they
\* stay 0 under further unchanged updates
C29_ComesToRest == made.same >= 5 => AtRest

\* a changed token was updated five times: the first update moved the
\* energies, the other four reproduced them
C29_Witness ==
    /\ made.edit > 0
    /\ made.update = 5
    /\ made.same = 5
    /\ made.stabilize = 0

\* the coming stabilize() call runs strengthenStructure(), which multiplies
\* every phase by 0.8
Damping == made'.stabilize = made.stabilize + 1
             /\ token.H1_coherence > token.H2_structure

\* the opposing pairs did not become more, nor the structure term less
NoMoreOpposed ==
    /\ Cardinality(Opposed(token'.emotionalState.components))
          <= Cardinality(Opposed(token.emotionalState.components))
    /\ CheckEmotionalStructure(token') >= CheckEmotionalStructure(token)

PhasesWithinHalfTurn ==
    \A i \in 1..Len(token.emotionalState.components) :
        /\ 0 <= token.emotionalState.components[i].phase
        /\ token.emotionalState.components[i].phase <= Pi

----------------------------------------------------------------------------
(* Claims about the wrapper (checked under SpecWrapper) *)

\* the generate calls of the last process() call that rejected
Rejecting ==
    {i \in 1..Len(processCall.generateCalls) :
        baseModel[processCall.generateCalls[i]] = "rejects"}

\* C25: process(input) relays the base model's outcome: when every
\* generate call resolves, process resolves with a collapsed result; when a
\* generate call rejects, process rejects with that error; and generate is
\* never called twice with one prompt
C25_RelaysBaseModel ==
    processCall.outcome # "none" =>
        /\ Rejecting = {} => processCall.outcome = "resolved"
        /\ Rejecting # {} =>
              /\ processCall.outcome = "rejected"
              /\ processCall.error = "generate"
        /\ \A i, j \in 1..Len(processCall.generateCalls) :
              i # j => processCall.generateCalls[i]
                          # processCall.generateCalls[j]

====
